---- MODULE Spec2Model ----
(***************************************************************************)
(* Peer-connection lifecycle and call signaling of the chat front end.     *)
(*                                                                         *)
(*   AbstractPeerConnection.ts  the peer link: status, native connection,  *)
(*                              SDP offer / answer, inbound signaling      *)
(*   FilePeerConnection.ts      the file link: ICE callback, closeEvents   *)
(*   CallHandler (part_000)     the call session: capture, offer, accept,  *)
(*                              answer, hang up                            *)
(*                                                                         *)
(* Nine specifications share the definitions below:                        *)
(*   SpecLink   one peer link with its callers and the platform callbacks  *)
(*   Spec       the call handler of one room with its peer links           *)
(*   SpecMedia  the local media of a call the user started                 *)
(*   SpecStore  the store's mutations of one file transfer record          *)
(*   SpecGlare  two peers building their mutual call link                  *)
(*   SpecPair   two peers negotiating over their mutual call link          *)
(*   SpecPing   the screen-share extension ping and its timer              *)
(*   SpecSdp    setMediaBitrate applied to a session description           *)
(*   SpecLs     the room header ids cached and kept in localStorage        *)
(* The subscription router, the transfer-handler base class and the call   *)
(* variants of the peer link are not part of the sources; they are         *)
(* modelled from the specification document.                               *)
(***************************************************************************)
EXTENDS Integers, Sequences, FiniteSets, TLC

(* ------------------------------ bounds --------------------------------- *)
\* signaling payloads the relay delivers to one link
MaxMsgs == 3
\* entries of acceptedPeers and of webrtcConnnectionsIds
MaxList == 2
\* captureInput invocations
MaxCaptures == 2
\* close calls on one link that the history counter tells apart
MaxCloseCalls == 2
\* length of a websocket connection id in the glare specification
MaxIdLen == 2
\* connection ids the relay hands out
MaxConns == 2
\* replyCall and acceptCall messages the relay delivers to the handler
MaxRelayed == 3
\* the byte counts a chunk-progress mutation may carry
MaxUploaded == 2
\* renegotiations each peer of SpecPair starts
MaxRenegs == 1
\* calls of pingExtension in SpecPing
MaxPings == 2
\* lines of a session description in SpecSdp
MaxLines == 4
\* rooms, message ids and messages of one saveMessages call in SpecLs
MaxRooms == 2
MaxId == 3
MaxBatch == 2

(* ----------------------------- vocabulary ------------------------------ *)
NoConn == 0
\* opponents' websocket ids and the local one; ids are strings, compared
\* as JavaScript compares strings, and are written here as digit sequences
Opps == {<<1>>, <<3>>}
MyWsId == <<2>>
NoOpp == <<>>

PayloadTypes == {"sdp", "candidate", "message"}

\* FileTransferStatus
FileTransferStatus ==
    {"not_decided_yet", "declined_by_opponent", "declined_by_you",
     "finished", "error", "in_progress"}

\* the reason texts handed to closeEvents; NoText is the omitted argument
NoText == ""
LostText == "Connection has been lost"
Texts == {NoText, LostText, "Error"}

VARIABLES
    links,      \* the peer links, by (connection id, opponent id)
    subs,       \* the router's registry: the keys that have a handler
    handler,    \* the CallHandler's fields
    store,      \* the room's call info in the store
    live,       \* the captured streams whose tracks are live
    tracks,     \* the tracks of each captured stream, in getTracks order
    env,        \* pending async steps, captures made, ids the relay gave
    glare,      \* SpecGlare: the two peers' ids and link variants
    lastOp,     \* the operation performed by the last step
    out         \* what the last step sent, notified or asked of the platform

vars == <<links, subs, handler, store, live, tracks, env, glare, lastOp, out>>

(* ----------------------- subscription router --------------------------- *)
\* Subscription.getTransferId / getPeerConnectionId: the two key families
SessionKey(c) == <<c, NoOpp>>
PeerKey(c, o) == <<c, o>>

\* an effect of a step: a notification, a relay message or a platform call
Fx(a, k, v) == [a |-> a, k |-> k, v |-> v]
Op(a, k, v) == [op |-> a, k |-> k, v |-> v]
NoKey == <<NoConn, NoOpp>>

\* a link record together with the effects of the call that produced it
R(l, fx) == [l |-> l, fx |-> fx]

(* ----------------------------- peer link ------------------------------- *)
NoLink ==
    [kind |-> "none", sender |-> FALSE, connectionStatus |-> "new",
     offerCreator |-> FALSE, connectedToRemote |-> FALSE,
     sendRtcDataQueue |-> <<>>, pc |-> "null", ice |-> "new",
     localDesc |-> FALSE, remoteDesc |-> FALSE, ops |-> <<>>,
     sendChannel |-> "null", stream |-> 0,
     pcCloseCalls |-> 0, removeEmitted |-> 0,
     submitted |-> <<>>, queued |-> <<>>, processed |-> <<>>,
     closeCalls |-> 0, iceActive |-> FALSE, chanOpened |-> FALSE,
     transfer |-> "none", error |-> NoText, reported |-> NoText,
     uploaded |-> 0, anchor |-> NoText]

\* AbstractPeerConnection field initialisers and constructor; a file link
\* is created for a transfer that has been offered and is not yet decided
NewLink(kind, sender) ==
    [NoLink EXCEPT !.kind = kind, !.sender = sender,
                   !.transfer = IF kind = "file" THEN "not_decided_yet" ELSE @]

\* setConnectionStatus
SetConnectionStatus(l, newStatus) == [l EXCEPT !.connectionStatus = newStatus]

\* createPeerConnection: this.pc is replaced by a new native connection;
\* callbacks of operations already started still run and read this.pc
CreatePeerConnection(l) ==
    [l EXCEPT !.pc = "open", !.ice = "new", !.localDesc = FALSE,
              !.remoteDesc = FALSE]

\* RTCPeerConnection.close(): signalingState and iceConnectionState become
\* closed and no pending operation settles afterwards.  The data channel of
\* the connection is closed at once (abrupt) or is left to close later.
NativeClose(l, abrupt) ==
    [l EXCEPT !.pc = "closed", !.ice = "closed", !.ops = <<>>,
              !.pcCloseCalls = @ + 1,
              !.sendChannel = IF abrupt /\ @ # "null" THEN "closed" ELSE @]

\* mutant: the signalingState test is missing, close() is called again
ClosePeerConnectionNoGuard(l, abrupt) ==
    LET l1 == SetConnectionStatus(l, "closed")
    IN  IF l1.pc # "null"
        THEN R(NativeClose(l1, abrupt), <<Fx("pc.close", NoKey, 0)>>)
        ELSE R(l1, <<>>)

\* mutant: a link without an open native connection is reset for reuse
ClosePeerConnectionResets(l, abrupt) ==
    IF l.pc # "null" /\ l.pc # "closed"
    THEN R(NativeClose(SetConnectionStatus(l, "closed"), abrupt),
           <<Fx("pc.close", NoKey, 0)>>)
    ELSE R(SetConnectionStatus(l, "new"), <<>>)

\* closePeerConnection
ClosePeerConnection(l, abrupt) ==
    LET l1 == SetConnectionStatus(l, "closed")
    IN  IF l1.pc # "null" /\ l1.pc # "closed"
        THEN R(NativeClose(l1, abrupt), <<Fx("pc.close", NoKey, 0)>>)
        ELSE R(l1, <<>>)

\* sendWebRtcEvent: wsHandler.sendRtcData(message, connectionId, opponentWsId)
SendWebRtcEvent(l, what) == R(l, <<Fx(what, NoKey, 0)>>)

\* mutant: the failure callback forwards a description all the same
FailWebRtcSends(l, parent) ==
    R(l, <<Fx(parent, NoKey, 0), Fx("ws.sendRtcData:offer", NoKey, 0)>>)

\* failWebRtc: an error growl and a log line, nothing else
FailWebRtc(l, parent) == R(l, <<Fx(parent, NoKey, 0)>>)

\* createOffer up to the platform call; the callbacks are in OpSettled
CreateOffer(l) ==
    R([l EXCEPT !.offerCreator = TRUE, !.ops = Append(@, "createOffer")],
      <<Fx("pc.createOffer", NoKey, 0)>>)

\* respondeOffer up to the platform call
RespondeOffer(l) ==
    R([l EXCEPT !.offerCreator = FALSE, !.ops = Append(@, "createAnswer")],
      <<Fx("pc.createAnswer", NoKey, 0)>>)

\* handleAnswer: the success callback of setRemoteDescription
HandleAnswer(l) ==
    LET r == IF ~l.offerCreator THEN RespondeOffer(l) ELSE R(l, <<>>)
    IN  R([r.l EXCEPT !.offerCreator = FALSE], r.fx)

\* the dispatch of onsendRtcData on a payload that is not skipped
Dispatch(l, m) ==
    LET l1 == [l EXCEPT !.processed = Append(@, m.id)]
    IN  CASE m.type = "sdp" ->
               R([l1 EXCEPT !.ops = Append(@, "setRemoteDescription")],
                 <<Fx("pc.setRemoteDescription", NoKey, m.id)>>)
          [] m.type = "candidate" ->
               R(l1, <<Fx("pc.addIceCandidate", NoKey, m.id)>>)
          [] OTHER -> R(l1, <<Fx("warn", NoKey, m.id)>>)

\* mutant: the iceConnectionState test is missing
OnsendRtcDataNoClosedCheck(l, m) ==
    IF ~l.connectedToRemote
    THEN R([l EXCEPT !.sendRtcDataQueue = Append(@, m)], <<>>)
    ELSE IF l.pc = "null"
    THEN R(l, <<Fx("TypeError", NoKey, m.id)>>)
    ELSE Dispatch(l, m)

\* mutant: the payload is put at the head of the queue
OnsendRtcDataUnshift(l, m) ==
    IF ~l.connectedToRemote
    THEN R([l EXCEPT !.sendRtcDataQueue = <<m>> \o @], <<>>)
    ELSE IF l.pc = "null"
    THEN R(l, <<Fx("TypeError", NoKey, m.id)>>)
    ELSE IF l.ice # "closed" THEN Dispatch(l, m)
    ELSE R(l, <<Fx("skip", NoKey, m.id)>>)

\* onsendRtcData: a signaling payload m = [id, type] routed to the link
OnsendRtcData(l, m) ==
    IF ~l.connectedToRemote
    THEN R([l EXCEPT !.sendRtcDataQueue = Append(@, m)], <<>>)
    ELSE IF l.pc = "null"
    THEN R(l, <<Fx("TypeError", NoKey, m.id)>>)
    ELSE IF l.ice # "closed"
    THEN Dispatch(l, m)
    ELSE R(l, <<Fx("skip", NoKey, m.id)>>)

\* mutant: a rejected createOffer is issued again
OpSettledRetries(l, op, ok) ==
    CASE op = "createOffer" ->
            IF ok THEN R([l EXCEPT !.ops = Append(@, "setLocalOffer")],
                         <<Fx("pc.setLocalDescription", NoKey, 1)>>)
                  ELSE R([l EXCEPT !.ops = Append(@, "createOffer")],
                         <<Fx("growlError:createOffer", NoKey, 0),
                           Fx("pc.createOffer", NoKey, 0)>>)
      [] op = "createAnswer" ->
            IF ok THEN R([l EXCEPT !.ops = Append(@, "setLocalAnswer")],
                         <<Fx("pc.setLocalDescription", NoKey, 2)>>)
                  ELSE FailWebRtc(l, "growlError:createAnswer")
      [] op = "setLocalOffer" ->
            IF ok THEN SendWebRtcEvent([l EXCEPT !.localDesc = TRUE], "ws.sendRtcData:offer")
                  ELSE FailWebRtc(l, "growlError:setLocalDescription")
      [] op = "setLocalAnswer" ->
            IF ok THEN SendWebRtcEvent([l EXCEPT !.localDesc = TRUE], "ws.sendRtcData:answer")
                  ELSE FailWebRtc(l, "growlError:setLocalDescription")
      [] OTHER ->
            IF ok THEN HandleAnswer([l EXCEPT !.remoteDesc = TRUE])
                  ELSE FailWebRtc(l, "growlError:setRemoteDescription")

\* the success and failure callbacks of the platform operation `op`
\* (createOffer, respondeOffer and onsendRtcData pass them to the platform)
OpSettled(l, op, ok) ==
    CASE op = "createOffer" ->
            IF ok THEN R([l EXCEPT !.ops = Append(@, "setLocalOffer")],
                         <<Fx("pc.setLocalDescription", NoKey, 1)>>)
                  ELSE FailWebRtc(l, "growlError:createOffer")
      [] op = "createAnswer" ->
            IF ok THEN R([l EXCEPT !.ops = Append(@, "setLocalAnswer")],
                         <<Fx("pc.setLocalDescription", NoKey, 2)>>)
                  ELSE FailWebRtc(l, "growlError:createAnswer")
      [] op = "setLocalOffer" ->
            IF ok THEN SendWebRtcEvent([l EXCEPT !.localDesc = TRUE], "ws.sendRtcData:offer")
                  ELSE FailWebRtc(l, "growlError:setLocalDescription")
      [] op = "setLocalAnswer" ->
            IF ok THEN SendWebRtcEvent([l EXCEPT !.localDesc = TRUE], "ws.sendRtcData:answer")
                  ELSE FailWebRtc(l, "growlError:setLocalDescription")
      [] OTHER ->
            IF ok THEN HandleAnswer([l EXCEPT !.remoteDesc = TRUE])
                  ELSE FailWebRtc(l, "growlError:setRemoteDescription")

\* onDestroy: removePeerConnection is notified to the session, then the
\* link's own key is unsubscribed (OnDestroySubs)
OnDestroy(l, k) ==
    R([l EXCEPT !.removeEmitted = @ + 1],
      <<Fx("notify:removePeerConnection", k, 0)>>)

\* mutant: the link's key stays registered
OnDestroySubsKeeps(S, k) == S

OnDestroySubs(S, k) == S \ {k}

\* setReceivingFileStatus / setSendingFileStatus: the status is replaced,
\* the error only when the payload carries one
SetFileStatus(l, status, error) ==
    [l EXCEPT !.transfer = status,
              !.error = IF error # NoText THEN error ELSE @]

\* setReceivingFileStatus: as above, and the anchor when the payload has one
SetReceivingFileStatus(l, status, error, anchor) ==
    [SetFileStatus(l, status, error) EXCEPT
        !.anchor = IF anchor # NoText THEN anchor ELSE @]

\* setSendingFileUploaded / setReceivingFileUploaded
SetFileUploaded(l, uploaded) == [l EXCEPT !.uploaded = uploaded]

\* ondatachannelclose(text) of the file links: a transfer that has not
\* reached a terminal status ends in error with the text as its reason
OnDataChannelClose(l, text) ==
    R(IF l.transfer \in {"not_decided_yet", "in_progress"}
      THEN SetFileStatus(l, "error", text) ELSE l,
      <<Fx("ondatachannelclose", NoKey, 0)>>)

\* FilePeerConnection.closeEvents(text); `reported` keeps the text it
\* handed to ondatachannelclose
CloseEvents(l, text, abrupt) ==
    LET r0 == IF text # NoText
              THEN OnDataChannelClose([l EXCEPT !.reported = text], text)
              ELSE R(l, <<>>)
        r1 == ClosePeerConnection(r0.l, abrupt)
    IN  IF r1.l.sendChannel # "null" /\ r1.l.sendChannel # "closed"
        THEN R([r1.l EXCEPT !.sendChannel = "closing"],
               r0.fx \o r1.fx \o <<Fx("channel.close", NoKey, 0)>>)
        ELSE R(r1.l, r0.fx \o r1.fx)

\* mutant: the disconnect closes the link without reporting a reason
FileOnIceChangeNoReason(l, abrupt) ==
    IF l.ice = "disconnected" THEN CloseEvents(l, NoText, abrupt)
    ELSE R(l, <<>>)

\* FilePeerConnection.oniceconnectionstatechange
FileOnIceChange(l, abrupt) ==
    IF l.ice = "disconnected" THEN CloseEvents(l, LostText, abrupt)
    ELSE R(l, <<>>)

(* ------------- link variants (from the specification document) --------- *)
\* the queued payloads are handed to onsendRtcData in queue order
RECURSIVE FlushQueue(_, _)
FlushQueue(l, q) ==
    IF q = <<>> THEN R(l, <<>>)
    ELSE LET r1 == OnsendRtcData(l, Head(q))
             r2 == FlushQueue(r1.l, Tail(q))
         IN  R(r2.l, r1.fx \o r2.fx)

\* mutant: the link is marked connected as soon as it is told to connect
ConnectToRemoteMarksConnected(l, stream) ==
    IF l.connectionStatus # "new"
    THEN R(l, <<Fx("warn", NoKey, 0)>>)
    ELSE LET l0 == [l EXCEPT !.connectedToRemote = TRUE, !.stream = stream,
                             !.sendChannel =
                                 IF l.kind = "file" /\ l.sender
                                 THEN "connecting" ELSE @]
             l1 == SetConnectionStatus(CreatePeerConnection(l0), "connected")
             r2 == IF l1.sender THEN CreateOffer(l1) ELSE R(l1, <<>>)
             r3 == FlushQueue([r2.l EXCEPT !.sendRtcDataQueue = <<>>],
                              r2.l.sendRtcDataQueue)
         IN  R(r3.l, r2.fx \o r3.fx)

\* connectToRemote: attach the stream and begin negotiation.  Honoured once,
\* on a new link; the offer-creating variant creates the offer; the payloads
\* queued so far are flushed in order and the queue is emptied.
ConnectToRemote(l, stream) ==
    IF l.connectionStatus # "new"
    THEN R(l, <<Fx("warn", NoKey, 0)>>)
    ELSE LET l0 == [l EXCEPT !.connectedToRemote = TRUE, !.stream = stream,
                             !.sendChannel =
                                 IF l.kind = "file" /\ l.sender
                                 THEN "connecting" ELSE @]
             l1 == SetConnectionStatus(CreatePeerConnection(l0), "negotiating")
             r2 == IF l1.sender THEN CreateOffer(l1) ELSE R(l1, <<>>)
             r3 == FlushQueue([r2.l EXCEPT !.sendRtcDataQueue = <<>>],
                              r2.l.sendRtcDataQueue)
         IN  R(r3.l, r2.fx \o r3.fx)

\* the close operation of a link: closePeerConnection for a call link,
\* closeEvents for a file link
CloseLink(l, text, abrupt) ==
    IF l.kind = "file" THEN CloseEvents(l, text, abrupt)
    ELSE ClosePeerConnection(l, abrupt)

\* destroy: the link is closed and the owning session is told
Destroy(l, k, abrupt) ==
    LET r1 == CloseLink(l, NoText, abrupt)
        r2 == OnDestroy(r1.l, k)
    IN  R(r2.l, r1.fx \o r2.fx)

\* the platform reports an active ICE state or an open data channel
MarkConnected(l) ==
    IF l.connectionStatus = "negotiating"
    THEN SetConnectionStatus(l, "connected") ELSE l

\* oniceconnectionstatechange of a call link: a disconnect ends the call
\* with this opponent
CallOnIceChange(l, k, abrupt) ==
    IF l.ice = "disconnected" THEN Destroy(l, k, abrupt)
    ELSE IF l.ice = "connected" THEN R(MarkConnected(l), <<>>)
    ELSE R(l, <<>>)

OnIceChange(l, k, abrupt) ==
    IF l.kind = "file" THEN FileOnIceChange(l, abrupt)
    ELSE CallOnIceChange(l, k, abrupt)

(* ---------------- call handler and its collaborators ------------------ *)
LinkKeys == ((1..MaxConns) \cup {NoConn}) \X Opps
Key0 == PeerKey(1, <<1>>)

\* the program state one synchronous call chain works on, with its effects
World ==
    [links |-> links, subs |-> subs, handler |-> handler, store |-> store,
     live |-> live, tracks |-> tracks, fx |-> <<>>]

Emit(W, e) == [W EXCEPT !.fx = Append(@, e)]

\* CallHandler field initialisers (BaseTransferHandler's included)
InitHandler ==
    [callStatus |-> "not_inited", connectionId |-> NoConn, localStream |-> 0,
     acceptedPeers |-> <<>>, webrtcConnnectionsIds |-> <<>>]

\* the room's callInfo as getRoomsBaseDict creates it, and the incoming call
InitStore ==
    [callActive |-> FALSE, incomingCall |-> NoConn, mediaStream |-> 0,
     showMic |-> TRUE, showVideo |-> TRUE, shareScreen |-> FALSE]

NoTracks == [s \in 1..MaxCaptures |-> <<>>]

Track(kind, isShare) == [kind |-> kind, isShare |-> isShare, enabled |-> TRUE]

\* captureInput up to its first await: showMic and showVideo are read when
\* it is called; shareScreen is read at once only when neither is set
CaptureRequest(st) ==
    [mic |-> st.showMic, video |-> st.showVideo, share |-> st.shareScreen]

NoRequest == [mic |-> FALSE, video |-> FALSE, share |-> FALSE]

\* captureInput: the tracks of the stream it resolves with; getUserMedia
\* gives the audio and camera tracks that were asked for, then shareScreen
\* is read from the store as it is by then and the screen track is added
\* after them.  With nothing to capture it throws 'Unable to capture stream'.
CaptureTracks(req, st) ==
    LET share == IF req.mic \/ req.video THEN st.shareScreen ELSE req.share
    IN  (IF req.mic THEN <<Track("audio", FALSE)>> ELSE <<>>)
        \o (IF req.video THEN <<Track("video", FALSE)>> ELSE <<>>)
        \o (IF share THEN <<Track("video", TRUE)>> ELSE <<>>)

\* captureInput resolved with the new stream s
Captured(W, s, req) ==
    [W EXCEPT !.live = @ \cup {s}, !.tracks[s] = CaptureTracks(req, W.store)]

\* captureInput can throw after getUserMedia has resolved: the screen is
\* captured after the microphone and the camera
CanLose(req, st) == (req.mic \/ req.video) /\ st.shareScreen

\* captureInput threw while capturing the screen: the stream s that
\* getUserMedia gave is not returned to the caller, its tracks stay live
CaptureLost(W, s, req) ==
    [W EXCEPT !.live = @ \cup {s},
              !.tracks[s] =
                 (IF req.mic THEN <<Track("audio", FALSE)>> ELSE <<>>)
                 \o (IF req.video THEN <<Track("video", FALSE)>> ELSE <<>>)]

\* destroyStreamData: every track of the stream is stopped
DestroyStreamData(W, endStream) ==
    IF endStream # 0
    THEN Emit([W EXCEPT !.live = @ \ {endStream}],
              Fx("tracks.stop", NoKey, endStream))
    ELSE W

\* subscribe: one handler per key, a key already registered keeps its handler
Subscribe(S, k) == S \cup {k}

\* stopLocalStream / destroyStreamData: the tracks of localStream are stopped
StopLocalStream(W) == DestroyStreamData(W, W.handler.localStream)

\* CallHandler.onDestroy
CallHandlerOnDestroy(W) ==
    LET W1 == StopLocalStream(W)
    IN  [W1 EXCEPT !.store.mediaStream = 0,
                   !.handler.connectionId = NoConn,
                   !.store.callActive = FALSE]

\* mutant: the stream is shown but not kept as the handler's local stream
AttachLocalStreamShowsOnly(W, stream) ==
    IF stream # 0
    THEN [W EXCEPT !.store.mediaStream = stream]
    ELSE W

\* attachLocalStream
AttachLocalStream(W, stream) ==
    IF stream # 0
    THEN [W EXCEPT !.handler.localStream = stream,
                   !.store.mediaStream = stream]
    ELSE W

\* handleStream: the sources the message names, from the store's flags,
\* as a set of bits: audio 1, video 2, screenshare 4
What(st) ==
    (IF st.showMic THEN 1 ELSE 0) + (IF st.showVideo THEN 2 ELSE 0)
       + (IF st.shareScreen THEN 4 ELSE 0)

\* handleStream: the tracks of endStream are stopped, a growl is shown
HandleStream(W, endStream) ==
    Emit(DestroyStreamData(W, endStream),
         Fx("growlErrorRaw", NoKey, What(W.store)))

RECURSIVE RemoveFirst(_, _)
RemoveFirst(q, x) ==
    IF q = <<>> THEN <<>>
    ELSE IF Head(q) = x THEN Tail(q)
    ELSE <<Head(q)>> \o RemoveFirst(Tail(q), x)

\* removePeerConnection: the session drops the link's opponent and tears
\* itself down when no link is left
RemovePeerConnection(W, o) ==
    LET ids == RemoveFirst(W.handler.webrtcConnnectionsIds, o)
        W1  == [W EXCEPT !.handler.webrtcConnnectionsIds = ids]
    IN  IF ids = <<>> THEN CallHandlerOnDestroy(W1) ELSE W1

\* the result r of a link's handler is stored; a removePeerConnection it
\* emitted is routed to the session, then the link's key is unsubscribed
ApplyLink(W, k, r) ==
    LET W1 == [W EXCEPT !.links[k] = r.l, !.fx = @ \o r.fx]
    IN  IF \E i \in 1..Len(r.fx) : r.fx[i].a = "notify:removePeerConnection"
        THEN LET W2 == IF SessionKey(k[1]) \in W1.subs
                       THEN RemovePeerConnection(W1, k[2]) ELSE W1
             IN  [W2 EXCEPT !.subs = OnDestroySubs(@, k)]
        ELSE W1

\* sub.notify of connectToRemote / destroy: delivered to the handler of the
\* key, dropped when the key has none
\* mutant: the message is handed to the link whether or not it is registered
NotifyConnectToRemoteUnchecked(W, k, stream) ==
    LET W1 == Emit(W, Fx("notify:connectToRemote", k, stream))
    IN  ApplyLink(W1, k, ConnectToRemote(W1.links[k], stream))

NotifyConnectToRemote(W, k, stream) ==
    LET W1 == Emit(W, Fx("notify:connectToRemote", k, stream))
    IN  IF k \in W1.subs
        THEN ApplyLink(W1, k, ConnectToRemote(W1.links[k], stream))
        ELSE W1

NotifyDestroy(W, k, abrupt) ==
    LET W1 == Emit(W, Fx("notify:destroy", k, 0))
    IN  IF k \in W1.subs
        THEN ApplyLink(W1, k, Destroy(W1.links[k], k, abrupt))
        ELSE W1

\* a > b on strings, as JavaScript compares them: by code unit, a proper
\* prefix being the smaller
RECURSIVE StrGreater(_, _)
StrGreater(a, b) ==
    IF a = <<>> THEN FALSE
    ELSE IF b = <<>> THEN TRUE
    ELSE IF Head(a) # Head(b) THEN Head(a) > Head(b)
    ELSE StrGreater(Tail(a), Tail(b))

\* mutant: only the first character of the two ids is compared
CallLinkSenderFirstChar(opp, self) ==
    opp # <<>> /\ (self = <<>> \/ Head(opp) > Head(self))

\* createCallPeerConnection: which variant is built for opponent opp by the
\* peer whose own id is self
CallLinkSender(opp, self) == StrGreater(opp, self)

\* mutant: the new link takes the key over from the registered one
CreateCallPeerConnectionReplaces(W, o) ==
    LET k == PeerKey(W.handler.connectionId, o)
    IN  [W EXCEPT !.links[k] = NewLink("call", CallLinkSender(o, MyWsId)),
                  !.subs = Subscribe(@, k),
                  !.handler.webrtcConnnectionsIds = Append(@, o)]

\* createCallPeerConnection: the link's constructor subscribes the pair
\* key; the router refuses a key that has a handler and flags the attempt
CreateCallPeerConnection(W, o) ==
    LET k  == PeerKey(W.handler.connectionId, o)
        W1 == IF k \in W.subs
              THEN Emit(W, Fx("subscribe:rejected", k, 0))
              ELSE [W EXCEPT !.links[k] = NewLink("call", CallLinkSender(o, MyWsId)),
                             !.subs = Subscribe(@, k)]
    IN  [W1 EXCEPT !.handler.webrtcConnnectionsIds = Append(@, o)]

\* replyCall
ReplyCall(W, o) == CreateCallPeerConnection(W, o)

\* mutant: without a connection id the acceptance is kept for later
OnacceptCallKeeps(W, o) ==
    IF W.handler.callStatus # "received_offer" /\ W.handler.connectionId # NoConn
    THEN NotifyConnectToRemote(W, PeerKey(W.handler.connectionId, o),
                               W.handler.localStream)
    ELSE [W EXCEPT !.handler.acceptedPeers = Append(@, o)]

\* onacceptCall
OnacceptCall(W, o) ==
    IF W.handler.callStatus # "received_offer"
    THEN IF W.handler.connectionId = NoConn
         THEN Emit(W, Fx("throw", NoKey, 0))
         ELSE NotifyConnectToRemote(W, PeerKey(W.handler.connectionId, o),
                                    W.handler.localStream)
    ELSE [W EXCEPT !.handler.acceptedPeers = Append(@, o)]

\* mutant: the handler is subscribed when the offer is sent, under the id
\* it has by then
OfferCallContinueSubscribes(W, stream) ==
    LET W1 == AttachLocalStream(W, stream)
        W2 == [W1 EXCEPT !.handler.callStatus = "sent_offer",
                         !.store.callActive = TRUE,
                         !.subs = Subscribe(@, SessionKey(W.handler.connectionId))]
    IN  Emit(W2, Fx("ws.offerCall", NoKey, 0))

\* offerCall after captureInput resolved with stream
OfferCallContinue(W, stream) ==
    LET W1 == AttachLocalStream(W, stream)
        W2 == [W1 EXCEPT !.handler.callStatus = "sent_offer",
                         !.store.callActive = TRUE]
    IN  Emit(W2, Fx("ws.offerCall", NoKey, 0))

\* offerCall when captureInput threw: stream is still null
OfferCallFailed(W) == HandleStream(W, 0)

\* the callback offerCall gives the relay: the session gets its id
OfferCallReply(W, c) ==
    [W EXCEPT !.handler.connectionId = c,
              !.subs = Subscribe(@, SessionKey(c))]

\* initAndDisplayOffer
InitAndDisplayOffer(W, c, o) ==
    LET W1 == [W EXCEPT !.handler.callStatus = "received_offer"]
        W2 == IF W1.handler.connectionId # NoConn
              THEN Emit(W1, Fx("logger.error", NoKey, 0)) ELSE W1
        W3 == [W2 EXCEPT !.handler.connectionId = c,
                         !.subs = Subscribe(@, SessionKey(c))]
        W4 == Emit(W3, Fx("ws.replyCall", SessionKey(c), 0))
        W5 == [W4 EXCEPT !.handler.acceptedPeers = Append(@, o),
                         !.store.incomingCall = c]
    IN  CreateCallPeerConnection(W5, o)

\* doAnswer up to its await of captureInput
DoAnswerStart(W, withVideo) ==
    Emit([W EXCEPT !.store.incomingCall = NoConn,
                   !.store.callActive = TRUE,
                   !.store.showVideo = withVideo,
                   !.store.shareScreen = FALSE,
                   !.store.showMic = TRUE,
                   !.handler.callStatus = "accepted"],
         Fx("captureInput", NoKey, 0))

RECURSIVE ConnectAccepted(_, _)
ConnectAccepted(W, q) ==
    IF q = <<>> THEN W
    ELSE ConnectAccepted(
            NotifyConnectToRemote(W, PeerKey(W.handler.connectionId, Head(q)),
                                  W.handler.localStream),
            Tail(q))

\* mutant: the accepted peers are connected last-in first-out
DoAnswerContinueLifo(W, stream) ==
    LET W1 == AttachLocalStream(W, stream)
        W2 == Emit(W1, Fx("ws.acceptCall", SessionKey(W1.handler.connectionId), 0))
        q  == W2.handler.acceptedPeers
    IN  ConnectAccepted(W2, [i \in 1..Len(q) |-> q[Len(q) + 1 - i]])

\* doAnswer after captureInput resolved with stream
DoAnswerContinue(W, stream) ==
    LET W1 == AttachLocalStream(W, stream)
        W2 == Emit(W1, Fx("ws.acceptCall", SessionKey(W1.handler.connectionId), 0))
    IN  ConnectAccepted(W2, W2.handler.acceptedPeers)

\* declineCall
DeclineCall(W) ==
    LET W1 == [W EXCEPT !.store.incomingCall = NoConn]
        W2 == Emit(W1, Fx("ws.declineCall", SessionKey(W1.handler.connectionId), 0))
    IN  CallHandlerOnDestroy(W2)

\* closeAllPeerConnections: every listed link is told to destroy itself
RECURSIVE CloseAllPeerConnections(_, _)
CloseAllPeerConnections(W, ids) ==
    IF ids = <<>> THEN W
    ELSE CloseAllPeerConnections(
            NotifyDestroy(W, PeerKey(W.handler.connectionId, Head(ids)), FALSE),
            Tail(ids))

\* mutant: hanging up without a session is an error
HangCallNeedsSession(W) ==
    IF W.handler.connectionId = NoConn
    THEN Emit(W, Fx("throw", NoKey, 0))
    ELSE IF Len(W.handler.webrtcConnnectionsIds) > 0
    THEN CloseAllPeerConnections(W, W.handler.webrtcConnnectionsIds)
    ELSE CallHandlerOnDestroy(W)

\* hangCall
HangCall(W) ==
    IF Len(W.handler.webrtcConnnectionsIds) > 0
    THEN CloseAllPeerConnections(W, W.handler.webrtcConnnectionsIds)
    ELSE CallHandlerOnDestroy(W)

(* --------------------------- local media ------------------------------- *)
Kinds == {"audio", "video", "share"}

\* the callInfo flag that belongs to a kind of device
Flag(st, kind) ==
    CASE kind = "audio" -> st.showMic
      [] kind = "share" -> st.shareScreen
      [] OTHER -> st.showVideo

\* mutant: each mutation writes its own flag only
SetFlagOwnOnly(st, kind, v) ==
    CASE kind = "audio" -> [st EXCEPT !.showMic = v]
      [] kind = "share" -> [st EXCEPT !.shareScreen = v]
      [] OTHER -> [st EXCEPT !.showVideo = v]

\* setMicToState, setShareScreenToState and setVideoToState: the camera
\* and the screen exclude each other
SetFlag(st, kind, v) ==
    CASE kind = "audio" -> [st EXCEPT !.showMic = v]
      [] kind = "share" -> [st EXCEPT !.shareScreen = v, !.showVideo = FALSE]
      [] OTHER -> [st EXCEPT !.showVideo = v, !.shareScreen = FALSE]

\* getTrack: the index of the track in the local stream, 0 for null.  Only
\* the first audio track, or the first video track, is looked at.
GetTrack(W, kind) ==
    LET s   == W.handler.localStream
        ts  == IF s = 0 THEN <<>> ELSE W.tracks[s]
        sel == IF kind = "audio" THEN "audio" ELSE "video"
        idx == {i \in 1..Len(ts) : ts[i].kind = sel}
    IN  IF idx = {} THEN 0
        ELSE LET i == CHOOSE j \in idx : \A m \in idx : j <= m
             IN  IF ts[i].isShare /\ kind = "share" THEN i
                 ELSE IF ~ts[i].isShare /\ kind = "video" THEN i
                 ELSE IF kind = "audio" THEN i
                 ELSE 0

\* updateConnection up to its await of captureInput: nothing happens unless
\* the local stream is active
UpdateConnectionStart(W) ==
    IF W.handler.localStream # 0 /\ W.handler.localStream \in W.live
    THEN Emit(W, Fx("captureInput", NoKey, 0))
    ELSE W

\* streamChanged handler of a call link: the link takes the new stream and
\* renegotiates
StreamChanged(l, newStream) ==
    IF l.pc = "open"
    THEN CreateOffer([l EXCEPT !.stream = newStream])
    ELSE R(l, <<Fx("warn", NoKey, 0)>>)

\* sub.notify of streamChanged, with its newStream and oldStream
NotifyStreamChanged(W, k, newStream, oldStream) ==
    LET W1 == Emit(Emit(W, Fx("notify:streamChanged", k, newStream)),
                   Fx("streamChanged.oldStream", k, oldStream))
    IN  IF k \in W1.subs
        THEN ApplyLink(W1, k, StreamChanged(W1.links[k], newStream))
        ELSE W1

RECURSIVE NotifyAllStreamChanged(_, _, _)
NotifyAllStreamChanged(W, ids, stream) ==
    IF ids = <<>> THEN W
    ELSE NotifyAllStreamChanged(
            NotifyStreamChanged(W, PeerKey(W.handler.connectionId, Head(ids)),
                                stream, W.handler.localStream),
            Tail(ids), stream)

\* updateConnection after captureInput resolved with stream
UpdateConnectionContinue(W, stream) ==
    LET W1 == StopLocalStream(W)
        W2 == AttachLocalStream(W1, stream)
    IN  NotifyAllStreamChanged(W2, W2.handler.webrtcConnnectionsIds, stream)

\* updateConnection when captureInput threw: stream is still null
UpdateConnectionFailed(W) == HandleStream(W, 0)

\* toggleDevice
ToggleDevice(W, kind) ==
    LET i == GetTrack(W, kind)
        s == W.handler.localStream
    IN  IF i # 0 /\ s \in W.live
        THEN [W EXCEPT !.tracks[s][i].enabled = Flag(W.store, kind)]
        ELSE UpdateConnectionStart(W)

(* ------------------------------ steps ---------------------------------- *)
Exists(k) == links[k].kind # "none"

Commit(W, op) ==
    /\ links' = W.links
    /\ subs' = W.subs
    /\ handler' = W.handler
    /\ store' = W.store
    /\ live' = W.live
    /\ tracks' = W.tracks
    /\ out' = W.fx
    /\ lastOp' = op

CaptureTasks == {"offerCapture", "answerCapture", "updateCapture"}

InitEnv ==
    [tasks |-> {}, captures |-> 0, streams |-> 0, conns |-> 0, relayed |-> 0,
     localConns |-> {}, acceptLog |-> <<>>,
     req |-> [t \in CaptureTasks |-> NoRequest], pings |-> <<>>,
     sdp |-> [lines |-> <<>>, text |-> <<>>, first |-> <<>>, n |-> 0,
              threw |-> FALSE],
     ls |-> [cache |-> <<>>, item |-> <<>>, seen |-> <<>>]]

\* a captureInput call is pending for the task, with what it read so far
StartCapture(e, task, st) ==
    [e EXCEPT !.tasks = @ \cup {task}, !.captures = @ + 1,
              !.req[task] = CaptureRequest(st)]

\* the pending captureInput call of the task has settled
EndCapture(e, task) ==
    [e EXCEPT !.tasks = @ \ {task}, !.req[task] = NoRequest]

\* the two-peer state: the peers' ids and link variants, the descriptions
\* sent so far, those in flight to each peer, those each peer is applying,
\* each native connection's signaling state, and what happened so far
NoGlare ==
    [ids |-> <<NoOpp, NoOpp>>, variant |-> <<"none", "none">>,
     msgs |-> <<>>, wire |-> <<<<>>, <<>>>>, applying |-> <<<<>>, <<>>>>,
     sig |-> <<"stable", "stable">>, renegs |-> <<0, 0>>,
     glared |-> FALSE, failed |-> FALSE, answerers |-> {}]

\* the link's state as its owner can observe it
LinkView(l) ==
    <<l.connectionStatus, l.pc, l.ice, l.sendChannel, l.connectedToRemote,
      l.offerCreator, l.sendRtcDataQueue, l.ops, l.pcCloseCalls,
      l.removeEmitted>>

LinkStep(k, r, op) ==
    /\ Commit(ApplyLink(World, k, r), op)
    /\ UNCHANGED <<env, glare>>

(* ------------------- SpecLink: one peer link --------------------------- *)
\* the constructor: the link subscribes its pair key
InitLink ==
    /\ \E kind \in {"call", "file"}, sender \in BOOLEAN :
          links = [k \in LinkKeys |->
                     IF k = Key0 THEN NewLink(kind, sender) ELSE NoLink]
    /\ subs = {Key0}
    /\ handler = InitHandler
    /\ store = InitStore
    /\ live = {}
    /\ tracks = NoTracks
    /\ env = InitEnv
    /\ glare = NoGlare
    /\ lastOp = Op("new", Key0, 0)
    /\ out = <<>>

\* sub.notify(connectToRemote) reaches the link
LConnectToRemote(k, stream) ==
    /\ k \in subs /\ Exists(k)
    /\ LinkStep(k, ConnectToRemote(links[k], stream),
                Op("connectToRemote", k, stream))

\* the relay delivers a signaling payload for the link
LSendRtcData(k, type) ==
    /\ k \in subs /\ Exists(k)
    /\ Len(links[k].submitted) < MaxMsgs
    /\ LET m  == [id |-> Len(links[k].submitted) + 1, type |-> type]
           l0 == [links[k] EXCEPT
                     !.submitted = Append(@, m.id),
                     !.queued = IF links[k].connectedToRemote THEN @
                                ELSE Append(@, m.id)]
       IN  LinkStep(k, OnsendRtcData(l0, m), Op("sendRtcData", k, m.id))

\* sub.notify(destroy) reaches the link
LDestroy(k, abrupt) ==
    /\ k \in subs /\ Exists(k)
    /\ LinkStep(k, Destroy(links[k], k, abrupt), Op("destroy", k, 0))

\* the subclass or the transfer handler calls the link's close operation
LClose(k, text, abrupt) ==
    /\ Exists(k)
    /\ LET l0 == [links[k] EXCEPT
                     !.closeCalls = IF @ < MaxCloseCalls THEN @ + 1 ELSE @]
       IN  LinkStep(k, CloseLink(l0, text, abrupt), Op("close", k, 0))

\* the platform settles the oldest pending operation of the connection
LOpSettled(k, ok) ==
    /\ Exists(k) /\ links[k].ops # <<>>
    /\ ok => links[k].pc = "open"
    /\ LET op == Head(links[k].ops)
           l0 == [links[k] EXCEPT !.ops = Tail(@)]
       IN  LinkStep(k, OpSettled(l0, op, ok), Op(op, k, IF ok THEN 1 ELSE 0))

\* the platform reports a new ICE connection state
LIceChange(k, s, abrupt) ==
    /\ Exists(k) /\ links[k].pc = "open"
    /\ \/ s = "connected" /\ links[k].ice = "new"
          /\ links[k].localDesc /\ links[k].remoteDesc
       \/ s = "disconnected" /\ links[k].ice = "connected"
    /\ LET l0 == [links[k] EXCEPT
                     !.ice = s, !.iceActive = @ \/ s = "connected"]
       IN  LinkStep(k, OnIceChange(l0, k, abrupt), Op("iceChange", k, 0))

\* the data channel of a file link opens
LChannelOpen(k) ==
    /\ Exists(k) /\ links[k].kind = "file"
    /\ links[k].pc = "open" /\ links[k].ice = "connected"
    /\ links[k].sendChannel = IF links[k].sender THEN "connecting" ELSE "null"
    /\ LET l0 == [links[k] EXCEPT !.sendChannel = "open", !.chanOpened = TRUE]
       IN  LinkStep(k, R(MarkConnected(l0), <<>>), Op("channelOpen", k, 0))

\* the data channel reports closed, after close() or because the other
\* end closed it; the channel's onclose callback of a file link reports it
LChannelClosed(k) ==
    /\ Exists(k) /\ links[k].sendChannel \in {"closing", "open"}
    /\ LET l0 == [links[k] EXCEPT !.sendChannel = "closed"]
       IN  LinkStep(k, IF l0.kind = "file"
                       THEN OnDataChannelClose(l0, "Error")
                       ELSE R(l0, <<>>),
                    Op("channelClosed", k, 0))

\* mutant: the buttons stay until the transfer has ended
ShowYesNoUntilEnd(l) == l.transfer \in {"not_decided_yet", "in_progress"}

\* ChatReceivingFile: the Accept and Decline buttons are rendered while
\* the transfer is not decided, the progress bar while it is in progress
ShowYesNo(l) == l.transfer = "not_decided_yet"

ShowProgress(l) == l.transfer = "in_progress"

\* the receiving user accepts the offered file, the sender is told so:
\* the transfer is in progress
LAcceptFile(k) ==
    /\ k \in subs /\ Exists(k) /\ links[k].kind = "file"
    /\ links[k].connectionStatus # "closed"
    /\ ShowYesNo(links[k])
    /\ LinkStep(k, R(SetFileStatus(links[k], "in_progress", NoText), <<>>),
                Op("acceptFile", k, 0))

\* the receiving user declines the offered file: the transfer is declined
\* and the link is closed
LDeclineFile(k, abrupt) ==
    /\ k \in subs /\ Exists(k) /\ links[k].kind = "file"
    /\ links[k].connectionStatus # "closed"
    /\ ShowYesNo(links[k])
    /\ LinkStep(k, CloseEvents(SetFileStatus(links[k], "declined_by_you", NoText),
                               NoText, abrupt),
                Op("declineFile", k, 0))

\* the end marker of the file went through the open channel
LFileFinished(k) ==
    /\ Exists(k) /\ links[k].kind = "file"
    /\ links[k].transfer = "in_progress" /\ links[k].sendChannel = "open"
    /\ LinkStep(k, R(SetFileStatus(links[k], "finished", NoText), <<>>),
                Op("fileFinished", k, 0))

NextLink ==
    \E k \in LinkKeys :
       \/ \E stream \in {0, 1} : LConnectToRemote(k, stream)
       \/ \E type \in PayloadTypes : LSendRtcData(k, type)
       \/ \E abrupt \in BOOLEAN : LDestroy(k, abrupt)
       \/ \E text \in Texts, abrupt \in BOOLEAN : LClose(k, text, abrupt)
       \/ \E ok \in BOOLEAN : LOpSettled(k, ok)
       \/ \E s \in {"connected", "disconnected"}, abrupt \in BOOLEAN :
             LIceChange(k, s, abrupt)
       \/ LChannelOpen(k)
       \/ LChannelClosed(k)
       \/ LAcceptFile(k)
       \/ \E abrupt \in BOOLEAN : LDeclineFile(k, abrupt)
       \/ LFileFinished(k)

SpecLink == InitLink /\ [][NextLink]_vars

(* ------------- Spec: the call handler of one room ----------------------- *)
Init ==
    /\ links = [k \in LinkKeys |-> NoLink]
    /\ subs = {}
    /\ handler = InitHandler
    /\ store = InitStore
    /\ live = {}
    /\ tracks = NoTracks
    /\ env = InitEnv
    /\ glare = NoGlare
    /\ lastOp = Op("init", NoKey, 0)
    /\ out = <<>>

\* the user starts a call: offerCall runs up to its await of captureInput
HOfferCall ==
    /\ env.tasks \cap {"offerCapture", "offerReply"} = {}
    /\ env.captures < MaxCaptures
    /\ env' = StartCapture(env, "offerCapture", store)
    /\ Commit(Emit(World, Fx("captureInput", NoKey, 0)), Op("offerCall", NoKey, 0))
    /\ UNCHANGED glare

\* captureInput of offerCall resolves with a new stream, or rejects
HOfferCaptured(ok) ==
    /\ "offerCapture" \in env.tasks
    /\ ok => CaptureTracks(env.req["offerCapture"], store) # <<>>
    /\ IF ok
       THEN LET s == env.streams + 1 IN
            /\ env' = [EndCapture(env, "offerCapture") EXCEPT
                          !.tasks = @ \cup {"offerReply"}, !.streams = s]
            /\ Commit(OfferCallContinue(
                         Captured(World, s, env.req["offerCapture"]), s),
                      Op("offerCall:captured", NoKey, 1))
       ELSE \E lost \in BOOLEAN :
            LET s  == env.streams + 1
                W0 == IF lost THEN CaptureLost(World, s, env.req["offerCapture"])
                      ELSE World
            IN  /\ lost => CanLose(env.req["offerCapture"], store)
                /\ env' = [EndCapture(env, "offerCapture") EXCEPT
                              !.streams = IF lost THEN s ELSE @]
                /\ Commit(OfferCallFailed(W0), Op("offerCall:captured", NoKey, 0))
    /\ UNCHANGED glare

\* the relay answers the offer with the id of the new connection
HOfferReply ==
    /\ "offerReply" \in env.tasks
    /\ env.conns < MaxConns
    /\ LET c == env.conns + 1 IN
       /\ env' = [env EXCEPT !.tasks = @ \ {"offerReply"}, !.conns = c,
                             !.localConns = @ \cup {c}]
       /\ Commit(OfferCallReply(World, c), Op("offerCall:reply", SessionKey(c), 0))
    /\ UNCHANGED glare

\* the relay delivers an opponent's offer, with the id of a new connection
HInitAndDisplayOffer(o) ==
    /\ env.conns < MaxConns
    /\ Len(handler.acceptedPeers) < MaxList
    /\ Len(handler.webrtcConnnectionsIds) < MaxList
    /\ LET c == env.conns + 1 IN
       /\ env' = [env EXCEPT !.conns = c, !.acceptLog = Append(@, PeerKey(c, o))]
       /\ Commit(InitAndDisplayOffer(World, c, o),
                 Op("initAndDisplayOffer", PeerKey(c, o), 0))
    /\ UNCHANGED glare

\* an opponent's reply to our offer is routed to the session's handler
HReplyCall(c, o) ==
    /\ SessionKey(c) \in subs /\ c \in env.localConns
    /\ Len(handler.webrtcConnnectionsIds) < MaxList
    /\ env.relayed < MaxRelayed
    /\ env' = [env EXCEPT !.relayed = @ + 1]
    /\ Commit(ReplyCall(World, o), Op("replyCall", PeerKey(c, o), 0))
    /\ UNCHANGED glare

\* an opponent's acceptance is routed to the session's handler
HAcceptCall(c, o) ==
    /\ SessionKey(c) \in subs
    /\ handler.callStatus = "received_offer" =>
          Len(handler.acceptedPeers) < MaxList
    /\ env.relayed < MaxRelayed
    /\ env' = [env EXCEPT !.relayed = @ + 1,
                          !.acceptLog =
                             IF handler.callStatus = "received_offer"
                             THEN Append(@, PeerKey(handler.connectionId, o))
                             ELSE @]
    /\ Commit(OnacceptCall(World, o), Op("acceptCall", PeerKey(c, o), 0))
    /\ UNCHANGED glare

\* the user answers the displayed call, with or without video: doAnswer
\* up to its await
HAnswerCall(withVideo) ==
    /\ store.incomingCall # NoConn
    /\ "answerCapture" \notin env.tasks
    /\ env.captures < MaxCaptures
    /\ env' = StartCapture(env, "answerCapture",
                           DoAnswerStart(World, withVideo).store)
    /\ Commit(DoAnswerStart(World, withVideo), Op("doAnswer", NoKey, 0))
    /\ UNCHANGED glare

\* captureInput of doAnswer resolves with a new stream, or rejects; doAnswer
\* catches nothing, a rejection ends it
HAnswerCaptured(ok) ==
    /\ "answerCapture" \in env.tasks
    /\ ok => CaptureTracks(env.req["answerCapture"], store) # <<>>
    /\ IF ok
       THEN LET s == env.streams + 1 IN
            /\ env' = [EndCapture(env, "answerCapture") EXCEPT !.streams = s]
            /\ Commit(DoAnswerContinue(
                         Captured(World, s, env.req["answerCapture"]), s),
                      Op("doAnswer:captured", NoKey, 1))
       ELSE \E lost \in BOOLEAN :
            LET s  == env.streams + 1
                W0 == IF lost THEN CaptureLost(World, s, env.req["answerCapture"])
                      ELSE World
            IN  /\ lost => CanLose(env.req["answerCapture"], store)
                /\ env' = [EndCapture(env, "answerCapture") EXCEPT
                              !.streams = IF lost THEN s ELSE @]
                /\ Commit(Emit(W0, Fx("unhandledRejection", NoKey, 0)),
                          Op("doAnswer:captured", NoKey, 0))
    /\ UNCHANGED glare

\* the user declines the displayed call
HDeclineCall ==
    /\ store.incomingCall # NoConn
    /\ Commit(DeclineCall(World), Op("declineCall", NoKey, 0))
    /\ UNCHANGED <<env, glare>>

\* the user hangs up (the step records whether the step before it was a
\* hang-up too)
HHangCall ==
    /\ Commit(HangCall(World),
              Op("hangCall", NoKey, IF lastOp.op = "hangCall" THEN 1 ELSE 0))
    /\ UNCHANGED <<env, glare>>

\* the native connection of a call link reports that the peer is lost (the
\* negotiation that precedes it is explored in SpecLink)
LPeerLost(k) ==
    /\ Exists(k) /\ links[k].pc = "open"
    /\ LinkStep(k, OnIceChange([links[k] EXCEPT !.ice = "disconnected"], k, FALSE),
                Op("iceChange", k, 0))

Next ==
    \/ HOfferCall
    \/ \E ok \in BOOLEAN : HOfferCaptured(ok)
    \/ HOfferReply
    \/ \E o \in Opps : HInitAndDisplayOffer(o)
    \/ \E c \in 1..MaxConns, o \in Opps : HReplyCall(c, o)
    \/ \E c \in 1..MaxConns, o \in Opps : HAcceptCall(c, o)
    \/ \E withVideo \in BOOLEAN : HAnswerCall(withVideo)
    \/ \E ok \in BOOLEAN : HAnswerCaptured(ok)
    \/ HDeclineCall
    \/ HHangCall
    \/ \E k \in LinkKeys : LPeerLost(k)

Spec == Init /\ [][Next]_vars

(* -------- SpecMedia: the local media of a call the user started -------- *)
Starts(W) == \E i \in 1..Len(W.fx) : W.fx[i].a = "captureInput"

ToggleOp(kind) ==
    CASE kind = "audio" -> "toggleDevice:audio"
      [] kind = "share" -> "toggleDevice:share"
      [] OTHER -> "toggleDevice:video"

\* the user flips a call control: the store's flag changes, then
\* toggleDevice runs for that kind
HToggleDevice(kind) ==
    /\ LET W0 == [World EXCEPT !.store = SetFlag(@, kind, ~Flag(store, kind))]
           W1 == ToggleDevice(W0, kind)
       IN  /\ Starts(W1) =>
                 "updateCapture" \notin env.tasks /\ env.captures < MaxCaptures
           /\ env' = IF Starts(W1)
                     THEN StartCapture(env, "updateCapture", W1.store)
                     ELSE env
           /\ Commit(W1, Op(ToggleOp(kind), NoKey, IF Starts(W1) THEN 1 ELSE 0))
    /\ UNCHANGED glare

\* the user picks another device: updateConnection up to its await
HUpdateConnection ==
    /\ LET W1 == UpdateConnectionStart(World)
       IN  /\ Starts(W1)
           /\ "updateCapture" \notin env.tasks /\ env.captures < MaxCaptures
           /\ env' = StartCapture(env, "updateCapture", store)
           /\ Commit(W1, Op("updateConnection", NoKey, 0))
    /\ UNCHANGED glare

\* captureInput of updateConnection resolves with a new stream, or rejects
HUpdateCaptured(ok) ==
    /\ "updateCapture" \in env.tasks
    /\ ok => CaptureTracks(env.req["updateCapture"], store) # <<>>
    /\ IF ok
       THEN LET s == env.streams + 1 IN
            /\ env' = [EndCapture(env, "updateCapture") EXCEPT !.streams = s]
            /\ Commit(UpdateConnectionContinue(
                         Captured(World, s, env.req["updateCapture"]), s),
                      Op("updateConnection:captured", NoKey, 1))
       ELSE \E lost \in BOOLEAN :
            LET s  == env.streams + 1
                W0 == IF lost THEN CaptureLost(World, s, env.req["updateCapture"])
                      ELSE World
            IN  /\ lost => CanLose(env.req["updateCapture"], store)
                /\ env' = [EndCapture(env, "updateCapture") EXCEPT
                              !.streams = IF lost THEN s ELSE @]
                /\ Commit(UpdateConnectionFailed(W0),
                          Op("updateConnection:captured", NoKey, 0))
    /\ UNCHANGED glare

\* the negotiation of a call link completes (it is explored in SpecLink)
LEstablished(k) ==
    /\ Exists(k) /\ links[k].connectionStatus = "negotiating"
    /\ LinkStep(k, R(MarkConnected(links[k]), <<>>), Op("iceChange", k, 1))

\* the user starts the one call this specification follows
MOfferCall == handler.callStatus = "not_inited" /\ HOfferCall

NextMedia ==
    \/ MOfferCall
    \/ \E ok \in BOOLEAN : HOfferCaptured(ok)
    \/ HOfferReply
    \/ \E c \in 1..MaxConns, o \in Opps : HReplyCall(c, o)
    \/ \E c \in 1..MaxConns, o \in Opps : HAcceptCall(c, o)
    \/ \E k \in LinkKeys : LEstablished(k)
    \/ \E kind \in Kinds : HToggleDevice(kind)
    \/ HUpdateConnection
    \/ \E ok \in BOOLEAN : HUpdateCaptured(ok)

SpecMedia == Init /\ [][NextMedia]_vars

(* ------- SpecStore: the store's record of one file transfer ------------ *)
\* addReceivingFile / addSendingFileTransfer: the record of an offered file
InitStoreRecord == InitLink /\ links[Key0].kind = "file"

\* the mutation setSendingFileStatus is committed
SSetSendingFileStatus(k, status, error) ==
    /\ Exists(k) /\ links[k].sender
    /\ LinkStep(k, R(SetFileStatus(links[k], status, error), <<>>),
                Op("setSendingFileStatus", k, 0))

\* the mutation setReceivingFileStatus is committed
SSetReceivingFileStatus(k, status, error, anchor) ==
    /\ Exists(k) /\ ~links[k].sender
    /\ LinkStep(k, R(SetReceivingFileStatus(links[k], status, error, anchor),
                     <<>>),
                Op("setReceivingFileStatus", k, 0))

\* a chunk went through: setSendingFileUploaded / setReceivingFileUploaded
SSetFileUploaded(k, uploaded) ==
    /\ Exists(k)
    /\ LinkStep(k, R(SetFileUploaded(links[k], uploaded), <<>>),
                Op("setFileUploaded", k, uploaded))

NextStore ==
    \E k \in LinkKeys :
       \/ \E status \in FileTransferStatus, error \in Texts :
             SSetSendingFileStatus(k, status, error)
       \/ \E status \in FileTransferStatus, error \in Texts,
             anchor \in {NoText, "blob"} :
             SSetReceivingFileStatus(k, status, error, anchor)
       \/ \E uploaded \in 0..MaxUploaded : SSetFileUploaded(k, uploaded)

SpecStore == InitStoreRecord /\ [][NextStore]_vars

(* ------------- SpecPing: pingExtension and its two callbacks ----------- *)
\* what the extension can answer: success, another data value, or nothing
\* usable (no response object, or one without data)
PingResponses == {"success", "denied", "empty"}

\* a promise settles with the first resolve or reject; later calls change
\* nothing.  `calls` counts the calls made.
Settle(p, outcome) ==
    [p EXCEPT !.promise = IF @ = "pending" THEN outcome ELSE @,
              !.calls = @ + 1]

\* clearTimeout: a timer that has not run yet will not run
ClearTimeout(p) == [p EXCEPT !.timer = IF @ = "armed" THEN "cleared" ELSE @]

\* pingExtension up to its return: without chrome.runtime it rejects at
\* once, else it arms the 500 ms timer and sends the ping
PingExtension(runtime) ==
    LET p == [triggered |-> FALSE, timer |-> "none", response |-> "none",
              promise |-> "pending", calls |-> 0, late |-> FALSE]
    IN  IF runtime
        THEN [p EXCEPT !.timer = "armed", !.response = "awaited"]
        ELSE Settle(p, "rejected:install")

\* the timer callback
OnPingTimeout(p) ==
    LET p1 == IF ~p.triggered THEN Settle(p, "rejected:install") ELSE p
    IN  [p1 EXCEPT !.triggered = TRUE]

\* mutant: the response is handled whether or not the timer has fired
OnPingResponseUnchecked(p, resp) ==
    IF resp = "success"
    THEN Settle(ClearTimeout(p), "resolved")
    ELSE Settle(ClearTimeout(p),
                IF resp = "denied" THEN "rejected:data"
                ELSE "rejected:install")

\* the callback given to chrome.runtime.sendMessage
OnPingResponse(p, resp) ==
    IF p.triggered
    THEN [p EXCEPT !.late = TRUE]
    ELSE IF resp = "success"
    THEN Settle(ClearTimeout(p), "resolved")
    ELSE Settle(ClearTimeout(p),
                IF resp = "denied" THEN "rejected:data"
                ELSE "rejected:install")

PingStep(e, op) ==
    /\ env' = e
    /\ Commit(World, op)
    /\ UNCHANGED glare

\* captureInput asks for the screen through the extension
PPing(runtime) ==
    /\ Len(env.pings) < MaxPings
    /\ PingStep([env EXCEPT !.pings = Append(@, PingExtension(runtime))],
                Op("pingExtension", NoKey, Len(env.pings) + 1))

\* the 500 ms of ping i have passed
PTimeout(i) ==
    /\ i <= Len(env.pings)
    /\ env.pings[i].timer = "armed"
    /\ PingStep([env EXCEPT !.pings[i] =
                    OnPingTimeout([@ EXCEPT !.timer = "fired"])],
                Op("ping:timeout", NoKey, i))

\* the extension answers ping i
PResponse(i, resp) ==
    /\ i <= Len(env.pings)
    /\ env.pings[i].response = "awaited"
    /\ PingStep([env EXCEPT !.pings[i] =
                    OnPingResponse([@ EXCEPT !.response = resp], resp)],
                Op("ping:response", NoKey, i))

NextPing ==
    \/ \E runtime \in BOOLEAN : PPing(runtime)
    \/ \E i \in 1..MaxPings : PTimeout(i)
    \/ \E i \in 1..MaxPings, resp \in PingResponses : PResponse(i, resp)

SpecPing == Init /\ [][NextPing]_vars

(* ------------- SpecSdp: setMediaBitrate on a description -------------- *)
\* a text is a sequence of characters, Nl the line break
Nl == "\n"

\* String.split('\n')
RECURSIVE Split(_)
Split(t) ==
    IF \A i \in 1..Len(t) : t[i] # Nl THEN <<t>>
    ELSE LET i == CHOOSE i \in 1..Len(t) :
                     t[i] = Nl /\ \A j \in 1..(i - 1) : t[j] # Nl
         IN  <<SubSeq(t, 1, i - 1)>> \o Split(SubSeq(t, i + 1, Len(t)))

\* Array.join('\n')
RECURSIVE Join(_)
Join(ls) ==
    IF ls = <<>> THEN <<>>
    ELSE IF Len(ls) = 1 THEN ls[1]
    ELSE ls[1] \o <<Nl>> \o Join(Tail(ls))

\* line.indexOf(pre) === 0
StartsWith(l, pre) == Len(l) >= Len(pre) /\ SubSeq(l, 1, Len(pre)) = pre

\* the bitrate the link asks for and another one, as the digits they print as
Bitrate == "2"

OtherBitrate == "1"

\* 'b=AS:' + bitrate
BLine(bitrate) == <<"b", "=", "A", "S", ":", bitrate>>

\* the for loop: the position after the first m= line, 0 when there is none
AfterFirstM(lines) ==
    IF \E i \in 1..Len(lines) : StartsWith(lines[i], <<"m", "=">>)
    THEN 1 + CHOOSE i \in 1..Len(lines) :
                 /\ StartsWith(lines[i], <<"m", "=">>)
                 /\ \A j \in 1..(i - 1) : ~StartsWith(lines[j], <<"m", "=">>)
    ELSE 0

\* the while loop that skips i= and c= lines; reading past the last line
\* gives undefined, whose indexOf throws: the position is then 0
RECURSIVE SkipIC(_, _)
SkipIC(lines, line) ==
    IF line > Len(lines) THEN 0
    ELSE IF StartsWith(lines[line], <<"i", "=">>)
            \/ StartsWith(lines[line], <<"c", "=">>)
    THEN SkipIC(lines, line + 1)
    ELSE line

\* setMediaBitrate: the text it returns, or that it threw
SetMediaBitrate(sdp, bitrate) ==
    LET lines == Split(sdp)
        first == AfterFirstM(lines)
        line  == IF first = 0 THEN 0 ELSE SkipIC(lines, first)
    IN  IF first = 0 THEN [threw |-> FALSE, sdp |-> sdp]
        ELSE IF line = 0 THEN [threw |-> TRUE, sdp |-> sdp]
        ELSE IF StartsWith(lines[line], <<"b">>)
        THEN [threw |-> FALSE,
              sdp |-> Join([lines EXCEPT ![line] = BLine(bitrate)])]
        ELSE [threw |-> FALSE,
              sdp |-> Join(SubSeq(lines, 1, line - 1) \o <<BLine(bitrate)>>
                           \o SubSeq(lines, line, Len(lines)))]

\* the lines a description is made of here
SdpLines ==
    {<<"m", "=", "a">>, <<"m", "=", "v">>, <<"i", "=">>, <<"c", "=">>,
     BLine(OtherBitrate), BLine(Bitrate), <<"a", "=">>, <<>>}

RECURSIVE SdpTexts(_)
SdpTexts(n) ==
    IF n = 0 THEN {<<>>}
    ELSE LET S == SdpTexts(n - 1)
         IN  S \cup {Append(ls, l) : ls \in {t \in S : Len(t) = n - 1},
                                     l \in SdpLines}

\* a description of one to MaxLines lines is about to be offered or answered
InitSdp ==
    /\ links = [k \in LinkKeys |-> NoLink]
    /\ subs = {}
    /\ handler = InitHandler
    /\ store = InitStore
    /\ live = {}
    /\ tracks = NoTracks
    /\ glare = NoGlare
    /\ lastOp = Op("init", NoKey, 0)
    /\ out = <<>>
    /\ \E ls \in SdpTexts(MaxLines) \ {<<>>} :
          env = [InitEnv EXCEPT !.sdp.lines = ls, !.sdp.text = Join(ls)]

\* createOffer / respondeOffer pass the description through setMediaBitrate
SSetMediaBitrate ==
    /\ env.sdp.n < 2 /\ ~env.sdp.threw
    /\ LET r == SetMediaBitrate(env.sdp.text, Bitrate)
       IN  env' = [env EXCEPT !.sdp.text = r.sdp,
                              !.sdp.first = IF env.sdp.n = 0 THEN r.sdp ELSE @,
                              !.sdp.n = @ + 1,
                              !.sdp.threw = r.threw]
    /\ Commit(World, Op("setMediaBitrate", NoKey, env.sdp.n + 1))
    /\ UNCHANGED glare

NextSdp == SSetMediaBitrate

SpecSdp == InitSdp /\ [][NextSdp]_vars

(* ------------ SpecLs: the header ids kept in localStorage -------------- *)
Rooms == 1..MaxRooms

MessageIds == 1..MaxId

\* a room id as the property name it becomes in a JSON object
KeyOf(r) == <<"1", "2", "3", "4", "5", "6", "7", "8", "9">>[r]

\* parseInt(k), and the lookup lm[roomId]
ParseInt(k) == CHOOSE r \in Rooms : KeyOf(r) = k

\* JSON.stringify of an object of header ids: the rooms that have one, as
\* name / value pairs in ascending order of the name; 0 stands for undefined
RECURSIVE JsonStringify(_, _)
JsonStringify(lm, r) ==
    IF r > MaxRooms THEN <<>>
    ELSE (IF lm[r] = 0 THEN <<>> ELSE <<<<KeyOf(r), lm[r]>>>>)
         \o JsonStringify(lm, r + 1)

\* JSON.parse(localStorage.getItem(STORAGE_NAME) || '{}')
JsonParse(item) ==
    [r \in Rooms |->
        IF \E i \in 1..Len(item) : ParseInt(item[i][1]) = r
        THEN item[CHOOSE i \in 1..Len(item) : ParseInt(item[i][1]) = r][2]
        ELSE 0]

NoEntry == [has |-> FALSE, h |-> 0, f |-> 0]

\* the constructor: every stored header id becomes a cache entry h = f
LoadCache(item) ==
    [r \in Rooms |-> IF JsonParse(item)[r] = 0 THEN NoEntry
                     ELSE [has |-> TRUE, h |-> JsonParse(item)[r],
                           f |-> JsonParse(item)[r]]]

\* applyCache: the new cache, and whether the value lies within h..f
ApplyCache(cache, roomId, value) ==
    IF ~cache[roomId].has
    THEN [cache |-> [cache EXCEPT ![roomId] =
                        [has |-> TRUE, h |-> value, f |-> value]],
          within |-> FALSE]
    ELSE IF value < cache[roomId].h
    THEN [cache |-> [cache EXCEPT ![roomId].h = value], within |-> FALSE]
    ELSE IF value > cache[roomId].f
    THEN [cache |-> [cache EXCEPT ![roomId].f = value], within |-> FALSE]
    ELSE [cache |-> cache, within |-> TRUE]

\* mutant: the header id is written whatever is stored
SaveJsonAlways(item, roomId, value) ==
    JsonStringify([JsonParse(item) EXCEPT ![roomId] = value], 1)

\* saveJson: the stored item afterwards
SaveJson(item, roomId, value) ==
    LET lm == JsonParse(item)
    IN  IF lm[roomId] = 0 \/ value < lm[roomId]
        THEN JsonStringify([lm EXCEPT ![roomId] = value], 1)
        ELSE item

\* setRoomHeaderId
SetRoomHeaderId(ls, roomId, value) ==
    LET a == ApplyCache(ls.cache, roomId, value)
    IN  [ls EXCEPT !.cache = a.cache,
                   !.item = IF a.within THEN @
                            ELSE SaveJson(@, roomId, value),
                   !.seen[roomId] = @ \cup {value}]

\* saveMessage
SaveMessage(ls, message) == SetRoomHeaderId(ls, message[1], message[2])

\* the forEach of saveMessages
RECURSIVE ApplyAll(_, _)
ApplyAll(ls, messages) ==
    IF messages = <<>> THEN ls
    ELSE ApplyAll([ls EXCEPT
                     !.cache = ApplyCache(@, Head(messages)[1],
                                          Head(messages)[2]).cache,
                     !.seen[Head(messages)[1]] = @ \cup {Head(messages)[2]}],
                  Tail(messages))

\* saveMessages: the cache takes every message, then every cached room whose
\* h is below the stored header id, or that has none stored, is written
SaveMessages(ls, messages) ==
    LET l1 == ApplyAll(ls, messages)
        lm == JsonParse(l1.item)
    IN  [l1 EXCEPT !.item =
            JsonStringify(
               [k \in Rooms |->
                   IF l1.cache[k].has /\ (lm[k] = 0 \/ l1.cache[k].h < lm[k])
                   THEN l1.cache[k].h ELSE lm[k]], 1)]

\* clearStorage
ClearStorage(ls) ==
    [cache |-> [r \in Rooms |-> NoEntry], item |-> <<>>,
     seen |-> [r \in Rooms |-> {}]]

\* messages as room / id pairs, and the batches of saveMessages
Messages == Rooms \X MessageIds

RECURSIVE Batches(_)
Batches(n) ==
    IF n = 0 THEN {<<>>}
    ELSE LET S == Batches(n - 1)
         IN  S \cup {Append(b, m) : b \in {t \in S : Len(t) = n - 1},
                                    m \in Messages}

\* the storage is constructed over what an earlier session left in
\* localStorage: for every room a header id or none
InitLs ==
    /\ links = [k \in LinkKeys |-> NoLink]
    /\ subs = {}
    /\ handler = InitHandler
    /\ store = InitStore
    /\ live = {}
    /\ tracks = NoTracks
    /\ glare = NoGlare
    /\ lastOp = Op("init", NoKey, 0)
    /\ out = <<>>
    /\ \E lm \in [Rooms -> 0..MaxId] :
          env = [InitEnv EXCEPT
                   !.ls = [cache |-> LoadCache(JsonStringify(lm, 1)),
                           item |-> JsonStringify(lm, 1),
                           seen |-> [r \in Rooms |->
                                       IF lm[r] = 0 THEN {} ELSE {lm[r]}]]]

LsStep(ls, op) ==
    /\ env' = [env EXCEPT !.ls = ls]
    /\ Commit(World, op)
    /\ UNCHANGED glare

\* a message arrives and is saved
LsSaveMessage(message) ==
    /\ message \in Messages
    /\ LsStep(SaveMessage(env.ls, message),
              Op("saveMessage", NoKey, message[2]))

\* a page of history is loaded and saved
LsSaveMessages(messages) ==
    /\ Len(messages) <= MaxBatch
    /\ LsStep(SaveMessages(env.ls, messages),
              Op("saveMessages", NoKey, Len(messages)))

LsSetRoomHeaderId(roomId, value) ==
    /\ roomId \in Rooms /\ value \in MessageIds
    /\ LsStep(SetRoomHeaderId(env.ls, roomId, value),
              Op("setRoomHeaderId", NoKey, value))

\* the user clears the history
LsClearStorage ==
    /\ env' = [env EXCEPT !.ls = ClearStorage(@)]
    /\ Commit(World, Op("clearStorage", NoKey, 0))
    /\ UNCHANGED glare

NextLs ==
    \/ \E message \in Messages : LsSaveMessage(message)
    \/ \E messages \in Batches(MaxBatch) : LsSaveMessages(messages)
    \/ \E r \in Rooms, v \in MessageIds : LsSetRoomHeaderId(r, v)
    \/ LsClearStorage

SpecLs == InitLs /\ [][NextLs]_vars

(* --------- SpecGlare: two peers build their mutual call link ------------ *)
RECURSIVE WsIds(_)
WsIds(n) ==
    IF n = 0 THEN {<<>>}
    ELSE LET S == WsIds(n - 1)
         IN  S \cup {Append(s, c) : s \in {t \in S : Len(t) = n - 1}, c \in {1, 2}}

InitGlare ==
    /\ links = [k \in LinkKeys |-> NoLink]
    /\ subs = {}
    /\ handler = InitHandler
    /\ store = InitStore
    /\ live = {}
    /\ tracks = NoTracks
    /\ env = InitEnv
    /\ \E a, b \in WsIds(MaxIdLen) \ {<<>>} :
          a # b /\ glare = [NoGlare EXCEPT !.ids = <<a, b>>]
    /\ lastOp = Op("init", NoKey, 0)
    /\ out = <<>>

\* peer p runs createCallPeerConnection for the other peer
GBuild(p) ==
    /\ glare.variant[p] = "none"
    /\ glare' = [glare EXCEPT !.variant[p] =
                    IF CallLinkSender(glare.ids[3 - p], glare.ids[p])
                    THEN "sender" ELSE "receiver"]
    /\ lastOp' = Op("createCallPeerConnection", NoKey, p)
    /\ UNCHANGED <<links, subs, handler, store, live, tracks, env, out>>

NextGlare == \E p \in {1, 2} : GBuild(p)

SpecGlare == InitGlare /\ [][NextGlare]_vars

(* ------- SpecPair: two peers negotiate over their mutual call link ------ *)
\* peer p's link to the other peer, under the key of its opponent
PairKey(p) == PeerKey(1, glare.ids[3 - p])

\* both peers have run createCallPeerConnection for each other
InitPair ==
    /\ \E a, b \in Opps :
          /\ a # b
          /\ glare = [NoGlare EXCEPT
                        !.ids = <<a, b>>,
                        !.variant = <<IF CallLinkSender(b, a)
                                      THEN "sender" ELSE "receiver",
                                      IF CallLinkSender(a, b)
                                      THEN "sender" ELSE "receiver">>]
          /\ links = [k \in LinkKeys |->
                        IF k = PeerKey(1, b)
                        THEN NewLink("call", CallLinkSender(b, a))
                        ELSE IF k = PeerKey(1, a)
                        THEN NewLink("call", CallLinkSender(a, b))
                        ELSE NoLink]
          /\ subs = {PeerKey(1, a), PeerKey(1, b)}
    /\ handler = InitHandler
    /\ store = InitStore
    /\ live = {}
    /\ tracks = NoTracks
    /\ env = InitEnv
    /\ lastOp = Op("new", NoKey, 0)
    /\ out = <<>>

\* the descriptions among the ids q
HasOffer(q) == \E i \in 1..Len(q) : glare.msgs[q[i]].kind = "offer"

\* peer q has created an offer that the other peer has not applied yet
OfferUnapplied(q) ==
    \/ \E i \in 1..Len(links[PairKey(q)].ops) :
          links[PairKey(q)].ops[i] \in {"createOffer", "setLocalOffer"}
    \/ HasOffer(glare.wire[3 - q])
    \/ HasOffer(glare.applying[3 - q])
    \/ HasOffer([i \in 1..Len(links[PairKey(3 - q)].sendRtcDataQueue) |->
                    links[PairKey(3 - q)].sendRtcDataQueue[i].id])

\* the ids of the descriptions handed to setRemoteDescription by a step
Applied(fx) ==
    LET sel == SelectSeq(fx, LAMBDA e : e.a = "pc.setRemoteDescription")
    IN  [i \in 1..Len(sel) |-> sel[i].v]

Answers(fx) == \E i \in 1..Len(fx) : fx[i].a = "pc.createAnswer"

CreatesOffer(fx) == \E i \in 1..Len(fx) : fx[i].a = "pc.createOffer"

\* the bookkeeping of a step of peer p whose handler returned r: what it
\* handed to the platform, and whether its offer collides with the other's
PairNote(g, p, r) ==
    [g EXCEPT !.applying[p] = @ \o Applied(r.fx),
              !.glared = @ \/ (CreatesOffer(r.fx) /\ OfferUnapplied(3 - p))]

PairStep(p, r, op, g) ==
    /\ Commit(ApplyLink(World, PairKey(p), r), op)
    /\ glare' = g
    /\ UNCHANGED env

\* RTCPeerConnection: the signaling states in which the operation can
\* succeed; an offer that collides with a local offer is rolled back to or
\* rejected, as the browser decides
CanSucceed(op, sg, kind) ==
    CASE op = "createOffer" -> TRUE
      [] op = "createAnswer" -> sg = "have-remote-offer"
      [] op = "setLocalOffer" -> sg \in {"stable", "have-local-offer"}
      [] op = "setLocalAnswer" -> sg = "have-remote-offer"
      [] OTHER -> IF kind = "offer" THEN TRUE ELSE sg = "have-local-offer"

\* RTCPeerConnection: the signaling state after the operation succeeded
NextSignaling(op, sg, kind) ==
    CASE op = "setLocalOffer" -> "have-local-offer"
      [] op = "setLocalAnswer" -> "stable"
      [] op = "setRemoteDescription" ->
            IF kind = "offer" THEN "have-remote-offer" ELSE "stable"
      [] OTHER -> sg

\* the accepted call reaches peer p's link
PConnectToRemote(p) ==
    /\ links[PairKey(p)].connectionStatus = "new"
    /\ LET r == ConnectToRemote(links[PairKey(p)], 1)
       IN  PairStep(p, r, Op("connectToRemote", PairKey(p), 1),
                    PairNote([glare EXCEPT !.sig[p] = "stable"], p, r))

\* peer p's local stream was replaced: its link renegotiates
PStreamChanged(p) ==
    /\ glare.renegs[p] < MaxRenegs
    /\ links[PairKey(p)].pc = "open"
    /\ LET r == StreamChanged(links[PairKey(p)], 2)
       IN  PairStep(p, r, Op("streamChanged", PairKey(p), 2),
                    PairNote([glare EXCEPT !.renegs[p] = @ + 1], p, r))

\* the relay delivers the oldest description in flight to peer p
PSendRtcData(p) ==
    /\ glare.wire[p] # <<>>
    /\ LET m == [id |-> Head(glare.wire[p]), type |-> "sdp"]
           r == OnsendRtcData(links[PairKey(p)], m)
       IN  PairStep(p, r, Op("sendRtcData", PairKey(p), m.id),
                    PairNote([glare EXCEPT !.wire[p] = Tail(@)], p, r))

\* the platform settles the oldest pending operation of peer p's
\* connection; a description the link sends goes on the wire to the other
PSettled(p, ok) ==
    /\ links[PairKey(p)].ops # <<>>
    /\ LET l    == links[PairKey(p)]
           op   == Head(l.ops)
           isRd == op = "setRemoteDescription"
           kind == IF isRd THEN glare.msgs[Head(glare.applying[p])].kind
                   ELSE "none"
           r    == OpSettled([l EXCEPT !.ops = Tail(@)], op, ok)
           sent == IF op = "setLocalOffer" THEN "offer" ELSE "answer"
           sends == \E i \in 1..Len(r.fx) :
                       r.fx[i].a \in {"ws.sendRtcData:offer",
                                      "ws.sendRtcData:answer"}
           g1   == [glare EXCEPT
                      !.applying[p] = IF isRd THEN Tail(@) ELSE @,
                      !.sig[p] = IF ok THEN NextSignaling(op, @, kind) ELSE @,
                      !.failed = @ \/ (~ok /\ ~(isRd /\ kind = "offer"
                                         /\ glare.sig[p] = "have-local-offer")),
                      !.answerers = IF Answers(r.fx) /\ glare.glared
                                    THEN @ \cup {p} ELSE @]
           g2   == IF sends
                   THEN [g1 EXCEPT
                           !.msgs = Append(@, [from |-> p, kind |-> sent]),
                           !.wire[3 - p] = Append(@, Len(glare.msgs) + 1)]
                   ELSE g1
       IN  /\ ok => l.pc = "open" /\ CanSucceed(op, glare.sig[p], kind)
           /\ PairStep(p, r, Op(op, PairKey(p), IF ok THEN 1 ELSE 0),
                       PairNote(g2, p, r))

NextPair ==
    \E p \in {1, 2} :
       \/ PConnectToRemote(p)
       \/ PStreamChanged(p)
       \/ PSendRtcData(p)
       \/ \E ok \in BOOLEAN : PSettled(p, ok)

SpecPair == InitPair /\ [][NextPair]_vars

(* --------------------- properties of the peer link --------------------- *)
PlatformCalls ==
    {"pc.setRemoteDescription", "pc.addIceCandidate", "pc.createAnswer",
     "pc.createOffer", "pc.setLocalDescription"}

Calls(fx) == {i \in 1..Len(fx) : fx[i].a \in PlatformCalls}

IsPrefix(p, q) == Len(p) <= Len(q) /\ \A i \in 1..Len(p) : p[i] = q[i]

NoDup(q) == \A i, j \in 1..Len(q) : q[i] = q[j] => i = j

Ids(q) == [i \in 1..Len(q) |-> q[i].id]

\* C1: closing a link twice in a row (closePeerConnection / closeEvents)
\* leaves the link as the first close left it, with status closed, the
\* native connection not open and the channel closing or closed, and
\* removePeerConnection is emitted at most once for a link.
C1_CloseIdempotent ==
    [][\A k \in LinkKeys :
          /\ links'[k].removeEmitted <= 1
          /\ (lastOp'.op = "close" /\ lastOp'.k = k) =>
                /\ links'[k].connectionStatus = "closed"
                /\ links'[k].pc # "open"
                /\ links'[k].sendChannel \notin {"connecting", "open"}
                /\ (lastOp.op = "close" /\ lastOp.k = k) =>
                       LinkView(links'[k]) = LinkView(links[k])]_vars

C1_Witness ==
    /\ links[Key0].closeCalls >= 2
    /\ lastOp.op = "destroy"
    /\ links[Key0].removeEmitted = 1
    /\ links[Key0].kind = "file"
    /\ links[Key0].sendChannel = "closed"

\* C2: once a link that created its native connection has been closed, the
\* native connection's close() has been invoked exactly once, however many
\* close calls follow.
C2_NativeClosedOnce ==
    \A k \in LinkKeys :
       /\ links[k].pcCloseCalls <= 1
       /\ (links[k].connectionStatus = "closed" /\ links[k].pc # "null") =>
             links[k].pc = "closed" /\ links[k].pcCloseCalls = 1

C2_Witness ==
    /\ links[Key0].closeCalls >= 2
    /\ links[Key0].pc = "closed"
    /\ links[Key0].pcCloseCalls = 1

\* C3: a closed link stays closed, and a step taken on a closed link,
\* a delivered signaling payload included, asks nothing of the platform.
C3_ClosedAbsorbing ==
    [][\A k \in LinkKeys :
          links[k].connectionStatus = "closed" =>
             /\ links'[k].connectionStatus = "closed"
             /\ links'[k].ops = links[k].ops
             /\ links'[k].processed = links[k].processed
             /\ (lastOp'.k = k /\ out' # out) => Calls(out') = {}]_vars

C3_Witness ==
    /\ links[Key0].connectionStatus = "closed"
    /\ lastOp.op = "sendRtcData"
    /\ Len(out) = 1 /\ out[1].a = "skip"

\* C4 as stated: the status moves only along new -> negotiating,
\* negotiating -> connected, negotiating -> closed, connected -> closed.
StatedEdges ==
    {<<"new", "negotiating">>, <<"negotiating", "connected">>,
     <<"negotiating", "closed">>, <<"connected", "closed">>}

C4_StatedEdges ==
    [][\A k \in LinkKeys :
          links'[k].connectionStatus # links[k].connectionStatus =>
             <<links[k].connectionStatus, links'[k].connectionStatus>>
                \in StatedEdges]_vars

\* C4 as amended: the status moves only along the stated edges and
\* new -> closed (a link closed before negotiation began).
C4_Edges ==
    [][\A k \in LinkKeys :
          links'[k].connectionStatus # links[k].connectionStatus =>
             <<links[k].connectionStatus, links'[k].connectionStatus>>
                \in StatedEdges \cup {<<"new", "closed">>}]_vars

C4_Witness ==
    /\ links[Key0].connectionStatus = "closed"
    /\ links[Key0].pc = "null"
    /\ lastOp.op \in {"close", "destroy"}

\* C5: a link whose status is connected has both descriptions set and, a
\* call link, has had an active ICE state reported, a file link, has had
\* its data channel reported open.
C5_ConnectedMeansNegotiated ==
    \A k \in LinkKeys :
       links[k].connectionStatus = "connected" =>
          /\ links[k].localDesc /\ links[k].remoteDesc
          /\ links[k].kind = "call" => links[k].iceActive
          /\ links[k].kind = "file" => links[k].chanOpened

C5_Witness ==
    \E k \in LinkKeys :
       links[k].connectionStatus = "connected" /\ links[k].kind = "file"

\* C6: payloads delivered before connectToRemote are queued in delivery
\* order and not processed; once the link is told to connect the queue is
\* empty and the queued payloads have been processed first, in delivery
\* order, each once.
C6_QueueFlushedInOrder ==
    \A k \in LinkKeys :
       LET l == links[k] IN
       /\ Ids(l.sendRtcDataQueue) =
             IF l.connectedToRemote THEN <<>> ELSE l.queued
       /\ ~l.connectedToRemote => l.processed = <<>> /\ l.queued = l.submitted
       /\ l.connectedToRemote =>
             IsPrefix(l.queued, l.processed) /\ NoDup(l.processed)

C6_Witness ==
    /\ links[Key0].connectedToRemote
    /\ Len(links[Key0].queued) >= 2
    /\ Len(links[Key0].processed) > Len(links[Key0].queued)


(* -------------------- properties of the call handler ------------------- *)
IsConnect(e) == e.a = "notify:connectToRemote"

Connects(fx) == SelectSeq(fx, IsConnect)

\* a sorts before b, position by position, a proper prefix sorting first
LexLess(a, b) ==
    \E i \in 1..(Len(b)) :
       /\ \A j \in 1..(i - 1) : j <= Len(a) /\ a[j] = b[j]
       /\ i > Len(a) \/ a[i] < b[i]

\* C7: two peers with distinct connection identifiers that each build their
\* mutual call link get one sender and one receiver variant, the sender
\* being the one whose own identifier sorts first, whichever of the two
\* builds its link first.
C7_GlareSymmetric ==
    \A p \in {1, 2} :
       /\ glare.variant[p] # "none" =>
             (glare.variant[p] = "sender" <=>
                 LexLess(glare.ids[p], glare.ids[3 - p]))
       /\ (glare.variant[p] = "sender" /\ glare.variant[3 - p] # "none") =>
             glare.variant[3 - p] = "receiver"

C7_Witness ==
    /\ glare.variant = <<"receiver", "sender">>
    /\ Len(glare.ids[1]) = Len(glare.ids[2])
    /\ Head(glare.ids[1]) = Head(glare.ids[2])
    /\ lastOp.v = 2

\* C8: when doAnswer's capture completes, connectToRemote is sent once per
\* entry of the accepted-peers list, in the order the entries were added.
C8_AcceptedConnectedFifo ==
    [][(lastOp'.op = "doAnswer:captured" /\ lastOp'.v = 1) =>
          /\ Len(Connects(out')) = Len(env.acceptLog)
          /\ \A i \in 1..Len(env.acceptLog) :
                Connects(out')[i].k =
                   PeerKey(handler.connectionId, env.acceptLog[i][2])]_vars

C8_Witness ==
    /\ lastOp.op = "doAnswer:captured" /\ lastOp.v = 1
    /\ Len(Connects(out)) = 2
    /\ Connects(out)[1].k[2] # Connects(out)[2].k[2]
    /\ links[Connects(out)[1].k].connectedToRemote

\* C9: once doAnswer has connected the accepted peers the list is empty,
\* and every opponent it connects was added to the list during the call
\* being answered.
C9_AcceptedPeersCleared ==
    [][(lastOp'.op = "doAnswer:captured" /\ lastOp'.v = 1) =>
          /\ handler'.acceptedPeers = <<>>
          /\ \A i \in 1..Len(Connects(out')) :
                \E j \in 1..Len(env.acceptLog) :
                   env.acceptLog[j] = Connects(out')[i].k]_vars

\* C10: in a session created by offerCall that still has its connection
\* id, an opponent's acceptCall produces exactly one connectToRemote, to the
\* link of that opponent in that session, carrying the stream offerCall
\* captured, and captureInput is not invoked.
C10_AcceptConnectsCaptured ==
    [][\A c \in 1..MaxConns, o \in Opps :
          (/\ lastOp'.op = "acceptCall" /\ lastOp'.k = PeerKey(c, o)
           /\ c \in env.localConns
           /\ handler.connectionId # NoConn) =>
             /\ handler.localStream # 0
             /\ Connects(out') = <<Fx("notify:connectToRemote", PeerKey(c, o),
                                      handler.localStream)>>
             /\ \A i \in 1..Len(out') : out'[i].a # "captureInput"]_vars

(* --------------------- properties of the local media ------------------- *)
\* the tracks of the local stream that are of the given kind
TracksOf(kind) ==
    LET s  == handler.localStream
        ts == IF s = 0 THEN <<>> ELSE tracks[s]
    IN  {i \in 1..Len(ts) :
           CASE kind = "audio" -> ts[i].kind = "audio"
             [] kind = "share" -> ts[i].kind = "video" /\ ts[i].isShare
             [] OTHER -> ts[i].kind = "video" /\ ~ts[i].isShare}

HasLiveTrack(kind) == handler.localStream \in live /\ TracksOf(kind) # {}

\* C11: toggleDevice for a kind that has a live track in the local stream
\* sets the enabled flag of that track to the kind's state flag and does
\* nothing else: same local stream, same tracks otherwise, no captureInput,
\* no streamChanged.
C11_ToggleOnlyFlipsEnabled ==
    [][\A kind \in Kinds :
          (lastOp'.op = ToggleOp(kind) /\ HasLiveTrack(kind)) =>
             /\ handler' = handler
             /\ live' = live
             /\ \A i \in 1..Len(out') :
                   out'[i].a \notin {"captureInput", "notify:streamChanged"}
             /\ \A i \in TracksOf(kind) :
                   tracks'[handler.localStream][i].enabled = Flag(store', kind)
             /\ \A i \in 1..Len(tracks[handler.localStream]) \ TracksOf(kind) :
                   tracks'[handler.localStream][i] =
                      tracks[handler.localStream][i]]_vars

\* C12: when updateConnection has captured the new stream, every connected
\* link of the session gets exactly one streamChanged, with the new stream
\* as newStream and the stream attached before as oldStream, and each of
\* them comes before the old stream's tracks are stopped.
C12_StreamChangedBeforeStop ==
    [][(lastOp'.op = "updateConnection:captured" /\ lastOp'.v = 1) =>
          \A k \in LinkKeys :
             (/\ k \in subs /\ k[1] = handler.connectionId
              /\ links[k].connectionStatus = "connected") =>
                LET sent == {i \in 1..Len(out') :
                               out'[i].a = "notify:streamChanged" /\ out'[i].k = k}
                IN  /\ Cardinality(sent) = 1
                    /\ \A i \in sent :
                          /\ out'[i].v = handler'.localStream
                          /\ out'[i].v # handler.localStream
                          /\ out'[i + 1].v = handler.localStream
                          /\ \A j \in 1..Len(out') :
                                (out'[j].a = "tracks.stop"
                                 /\ out'[j].v = handler.localStream) => i < j]_vars

(* ----------------- properties of the failed negotiation ---------------- *)
\* the platform call whose rejection the callback of `op` reports
FailedCall(op) ==
    CASE op = "createOffer" -> "growlError:createOffer"
      [] op = "createAnswer" -> "growlError:createAnswer"
      [] op \in {"setLocalOffer", "setLocalAnswer"} ->
            "growlError:setLocalDescription"
      [] OTHER -> "growlError:setRemoteDescription"

NegotiationOps ==
    {"createOffer", "createAnswer", "setLocalOffer", "setLocalAnswer",
     "setRemoteDescription"}

\* C18: when the platform rejects createOffer, createAnswer,
\* setLocalDescription or setRemoteDescription, the link shows one error
\* growl naming the call and does nothing else: its status and every other
\* field stay, nothing goes to the signaling channel and no platform call
\* is issued.
C18_RejectedCallOnlyGrowls ==
    [][\A k \in LinkKeys :
          (lastOp'.op \in NegotiationOps /\ lastOp'.k = k /\ lastOp'.v = 0) =>
             /\ out' = <<Fx(FailedCall(lastOp'.op), NoKey, 0)>>
             /\ links'[k] = [links[k] EXCEPT !.ops = Tail(@)]
             /\ links'[k].connectionStatus = links[k].connectionStatus]_vars

\* the platform rejected the remote description of a negotiating link
C18_Witness ==
    /\ lastOp.op = "setRemoteDescription" /\ lastOp.v = 0
    /\ out = <<Fx("growlError:setRemoteDescription", NoKey, 0)>>
    /\ links[Key0].connectionStatus = "negotiating"
    /\ links[Key0].ops = <<>>

\* the positions in fx of the effect a
At(fx, a) == {i \in 1..Len(fx) : fx[i].a = a}

\* C27: closeEvents, called directly, by destroy or by the ICE callback,
\* reports to ondatachannelclose only on a link whose data channel is not
\* closed already, and does so before it closes the native connection; on
\* a link whose channel is closed it reports nothing and leaves the
\* transfer record as it is.
C27_ClosedChannelNotReported ==
    [][\A k \in LinkKeys :
          (lastOp'.k = k /\ lastOp'.op \in {"close", "destroy", "iceChange"}
             /\ links[k].kind = "file") =>
            /\ \A i \in At(out', "ondatachannelclose") :
                  /\ links[k].sendChannel # "closed"
                  /\ \A j \in At(out', "pc.close") : i < j
            /\ links[k].sendChannel = "closed" =>
                  /\ links'[k].transfer = links[k].transfer
                  /\ links'[k].error = links[k].error]_vars

\* the descriptions a step forwarded to the signaling channel
Sent(fx) ==
    SelectSeq(fx, LAMBDA e : e.a \in {"ws.sendRtcData:offer",
                                      "ws.sendRtcData:answer"})

\* C26: a step forwards a description only as the success callback of the
\* setLocalDescription for it, one offer for an offer and one answer for an
\* answer; a failed createOffer, createAnswer or setLocalDescription
\* forwards nothing and starts no further platform operation.
C26_SentAfterLocalDescription ==
    [][\A k \in LinkKeys :
          lastOp'.k = k =>
            /\ Sent(out') # <<>> =>
                 /\ lastOp'.v = 1 /\ links'[k].localDesc
                 /\ \/ lastOp'.op = "setLocalOffer"
                       /\ out' = <<Fx("ws.sendRtcData:offer", NoKey, 0)>>
                    \/ lastOp'.op = "setLocalAnswer"
                       /\ out' = <<Fx("ws.sendRtcData:answer", NoKey, 0)>>
            /\ (lastOp'.op \in {"createOffer", "createAnswer", "setLocalOffer",
                                "setLocalAnswer"} /\ lastOp'.v = 0) =>
                 /\ Sent(out') = <<>>
                 /\ links'[k].ops = Tail(links[k].ops)
                 /\ links'[k].localDesc = links[k].localDesc]_vars

\* the answer of an offer-creating link to a later offer of its peer was
\* set as local description and is forwarded
C26_Witness ==
    /\ lastOp.op = "setLocalAnswer" /\ lastOp.v = 1
    /\ out = <<Fx("ws.sendRtcData:answer", NoKey, 0)>>
    /\ links[Key0].remoteDesc /\ links[Key0].localDesc
    /\ links[Key0].sender

(* ----------------- properties of the negotiating pair ------------------ *)
\* C24: a link whose setRemoteDescription succeeded on an answer of its
\* peer creates no answer to it.
C24_NeverAnswersAnswer ==
    [][\A p \in {1, 2} :
          (lastOp'.op = "setRemoteDescription" /\ lastOp'.k = PairKey(p)
             /\ lastOp'.v = 1
             /\ glare.msgs[Head(glare.applying[p])].kind = "answer") =>
                ~Answers(out')]_vars

\* nothing is pending on either side and both links were told to connect
PairQuiet ==
    \A p \in {1, 2} :
       /\ links[PairKey(p)].ops = <<>>
       /\ glare.wire[p] = <<>>
       /\ links[PairKey(p)].connectedToRemote

\* the peer whose id sorts first
LowerPeer == IF StrGreater(glare.ids[2], glare.ids[1]) THEN 1 ELSE 2

\* C25: when both peers had an offer outstanding at once and negotiation
\* has come to rest without any other failure of the platform, the peer
\* with the lower id, and only that peer, has created an answer.
C25_GlareResolved ==
    (PairQuiet /\ glare.glared /\ ~glare.failed) =>
        glare.answerers = {LowerPeer}

\* the steps that change the transfer status of a receiving file
DecisionOps == {"acceptFile", "declineFile"}

C36_PingSettlesOnce ==
    [][\A i \in 1..Len(env.pings) :
          LET p == env.pings[i]
              q == env'.pings[i]
          IN  /\ q.calls <= 1
              /\ p.promise # "pending" => q.promise = p.promise
              /\ q.promise = "pending" <=> q.calls = 0
              /\ q.promise = "resolved" =>
                    q.response = "success" /\ q.timer = "cleared"
              /\ q.timer = "fired" =>
                    q.promise = "rejected:install" /\ q.triggered
              /\ (q.response \in PingResponses /\ ~q.late) =>
                    /\ q.timer = "cleared"
                    /\ q.promise = CASE q.response = "success" -> "resolved"
                                     [] q.response = "denied" -> "rejected:data"
                                     [] OTHER -> "rejected:install"
              /\ q.late => q.timer = "fired"]_vars

\* a success response came after the timer of the ping had fired
C36_Witness ==
    /\ lastOp.op = "ping:response"
    /\ env.pings[lastOp.v].late
    /\ env.pings[lastOp.v].response = "success"
    /\ env.pings[lastOp.v].promise = "rejected:install"
    /\ env.pings[lastOp.v].calls = 1

(* ------------------ properties of the bitrate line -------------------- *)
IsM(l) == StartsWith(l, <<"m", "=">>)

IsIC(l) == StartsWith(l, <<"i", "=">>) \/ StartsWith(l, <<"c", "=">>)

IsB(l) == StartsWith(l, <<"b", "=">>)

\* the last line of the block made of the first m= line and the i= and c=
\* lines that follow it
BlockEnd(ls) ==
    LET m == CHOOSE i \in 1..Len(ls) :
                IsM(ls[i]) /\ \A j \in 1..(i - 1) : ~IsM(ls[j])
    IN  CHOOSE e \in m..Len(ls) :
           /\ \A j \in (m + 1)..e : IsIC(ls[j])
           /\ e < Len(ls) => ~IsIC(ls[e + 1])

\* the lines with the ceiling enforced as stated
WithCeiling(ls) ==
    IF \A i \in 1..Len(ls) : ~IsM(ls[i]) THEN ls
    ELSE LET e    == BlockEnd(ls)
             rest == SubSeq(ls, e + 1, Len(ls))
         IN  SubSeq(ls, 1, e) \o <<BLine(Bitrate)>>
             \o (IF rest # <<>> /\ IsB(rest[1]) THEN Tail(rest) ELSE rest)

\* C37: applied once, setMediaBitrate returns the description
\* with the ceiling line directly after the first m= line and its i= and c=
\* lines, in place of a b= line there or else inserted, and all other lines
\* as they were; applied again it returns the same.
C37_CeilingOnOneLine ==
    /\ ~env.sdp.threw
    /\ env.sdp.n >= 1 => env.sdp.first = Join(WithCeiling(env.sdp.lines))
    /\ env.sdp.n = 2 => env.sdp.text = env.sdp.first

(* ------------------ properties of the call controls ------------------ *)
\* C38: whatever sequence of setVideoToState and setShareScreenToState has
\* run on the room's call info, showVideo and shareScreen are never both
\* true.
C38_CameraOrScreen == ~(store.showVideo /\ store.shareScreen)

\* the screen was switched on while the camera flag was set, which cleared it
C38_Witness ==
    /\ lastOp.op = "toggleDevice:share"
    /\ store.shareScreen /\ ~store.showVideo

(* ------------------- properties of the header ids -------------------- *)
Least(S) == CHOOSE x \in S : \A y \in S : x <= y

Greatest(S) == CHOOSE x \in S : \A y \in S : y <= x

\* the header id localStorage holds for a room, 0 for none
Stored(e, r) == JsonParse(e.ls.item)[r]

\* the cache and the stored header id agree with the ids seen for the room
HeaderKept(e, r) ==
    e.ls.seen[r] # {} =>
        /\ e.ls.cache[r].has
        /\ e.ls.cache[r].h <= e.ls.cache[r].f
        /\ e.ls.cache[r].h = Least(e.ls.seen[r])
        /\ e.ls.cache[r].f = Greatest(e.ls.seen[r])
        /\ Stored(e, r) = Least(e.ls.seen[r])

\* C40: for every room, after any saveMessage / saveMessages /
\* setRoomHeaderId calls since the storage was constructed or cleared, the
\* cache has h <= f with h the smallest and f the largest id seen, the
\* header id in localStorage is the smallest id seen, and a stored header id
\* never becomes larger or disappears except by clearStorage.
C40_HeaderIsSmallestSeen ==
    [][/\ \A r \in Rooms : HeaderKept(env', r)
       /\ lastOp'.op # "clearStorage" =>
             \A r \in Rooms :
                Stored(env, r) # 0 =>
                   Stored(env', r) # 0 /\ Stored(env', r) <= Stored(env, r)
      ]_vars

\* a room whose stored header id is 2 with the ids 2 and 3 seen took the
\* smaller id 1 through saveMessages: h and the stored header id are 1, f is 3
C40_Witness ==
    /\ lastOp.op = "saveMessages"
    /\ env.ls.seen[1] = {1, 2, 3}
    /\ env.ls.cache[1] = [has |-> TRUE, h |-> 1, f |-> 3]
    /\ Stored(env, 1) = 1

(* ------------------ properties of the subscription router ------------- *)
PeerNotifications ==
    {"notify:connectToRemote", "notify:destroy", "notify:streamChanged"}

\* the step notified the link key k
Notified(fx, k) ==
    \E i \in 1..Len(fx) : fx[i].a \in PeerNotifications /\ fx[i].k = k

\* C14: a notification for a link key that has no handler in the registry
\* invokes no handler (the link of that key is left as it was), leaves the
\* key unregistered and throws nothing; so also for a key whose link has
\* been torn down.
C14_NotifyUnsubscribedIsNoop ==
    [][\A k \in LinkKeys :
          (k \notin subs /\ Notified(out', k)) =>
             /\ links'[k] = links[k]
             /\ k \notin subs'
             /\ \A i \in 1..Len(out') : out'[i].a # "throw"]_vars

\* an acceptance arrives for a link that was torn down: the notification
\* finds no handler
C14_Witness ==
    \E k \in LinkKeys :
       /\ lastOp.op = "acceptCall" /\ lastOp.k = k
       /\ Notified(out, k)
       /\ k \notin subs
       /\ links[k].connectionStatus = "closed"
       /\ links[k].removeEmitted = 1

C16_OfferDuringSessionRejected ==
    [][(lastOp'.op = "initAndDisplayOffer" /\ handler.connectionId # NoConn) =>
          /\ handler'.connectionId = handler.connectionId
          /\ subs' = subs
          /\ links' = links
          /\ \A i \in 1..Len(out') : out'[i].a \notin {"ws.replyCall", "throw"}]_vars

C19_CaptureFailureGrowls ==
    [][(lastOp'.op \in {"offerCall:captured", "doAnswer:captured"}
          /\ lastOp'.v = 0) =>
             /\ \E i \in 1..Len(out') :
                   out'[i] = Fx("growlErrorRaw", NoKey, What(store))
             /\ \A i \in 1..Len(out') : out'[i].a # "captureInput"]_vars

\* C22: an acceptCall that arrives while doAnswer is awaiting captureInput
\* is queued in acceptedPeers and connects nothing, and no connectToRemote
\* is ever notified with a null local stream.
C22_AcceptDuringCaptureQueued ==
    [][/\ (lastOp'.op = "acceptCall" /\ "answerCapture" \in env.tasks) =>
             /\ handler'.acceptedPeers =
                   Append(handler.acceptedPeers, lastOp'.k[2])
             /\ Connects(out') = <<>>
       /\ \A i \in 1..Len(out') : IsConnect(out'[i]) => out'[i].v # 0]_vars

\* C23: when the session was torn down (connectionId is null again) while
\* doAnswer was awaiting captureInput, the late completion is discarded: no
\* stream is attached or left live and no acceptCall or connectToRemote is
\* sent.
C23_LateCaptureDiscarded ==
    [][(lastOp'.op = "doAnswer:captured" /\ lastOp'.v = 1
          /\ handler.connectionId = NoConn) =>
             /\ handler'.localStream = handler.localStream
             /\ store'.mediaStream = store.mediaStream
             /\ live' = live
             /\ \A i \in 1..Len(out') :
                   out'[i].a \notin {"ws.acceptCall", "notify:connectToRemote"}]_vars

\* C28: the session's list of peer links names every opponent at most
\* once, whatever replies and offers were delivered, and how often, and
\* each opponent named has no more than its one registered link.
C28_OneLinkPerOpponent ==
    /\ NoDup(handler.webrtcConnnectionsIds)
    /\ \A c \in 1..MaxConns, o \in Opps :
          PeerKey(c, o) \in subs => Exists(PeerKey(c, o))

\* the session is torn down: no connection id, the call inactive, no peer
\* link listed or registered
TornDown(h, st, S) ==
    /\ h.connectionId = NoConn
    /\ ~st.callActive
    /\ h.webrtcConnnectionsIds = <<>>
    /\ \A c \in 1..MaxConns, o \in Opps : PeerKey(c, o) \notin S

\* C29: when hangCall has run, with or without peer links, the session is
\* torn down (every step of the teardown is a synchronous call made by
\* hangCall, so it is complete when hangCall returns).
C29_HangCallTearsDown ==
    [][lastOp'.op = "hangCall" => TornDown(handler', store', subs')]_vars

\* C30: at most one captured stream has live tracks, and it is the one
\* attached as the local stream.
C30_OneLiveStream ==
    /\ Cardinality(live) <= 1
    /\ \A s \in live : s = handler.localStream

\* C31: the step of offerCall that follows a successful capture attaches
\* the captured stream, sets the status sent_offer, marks the call active and
\* sends the offer to the relay, without subscribing the handler or giving
\* it a connection id; an offer is sent by no other step; and the handler is
\* subscribed under a session key only by the relay's callback, under the
\* id the relay returned, or by initAndDisplayOffer under the id it carries.
C31_OfferCallOrder ==
    [][/\ (lastOp'.op = "offerCall:captured" /\ lastOp'.v = 1) =>
             /\ handler'.localStream = env'.streams
             /\ handler'.localStream \in live'
             /\ store'.mediaStream = handler'.localStream
             /\ handler'.callStatus = "sent_offer"
             /\ store'.callActive
             /\ out' = <<Fx("ws.offerCall", NoKey, 0)>>
             /\ subs' = subs
             /\ handler'.connectionId = handler.connectionId
             /\ "offerReply" \in env'.tasks
       /\ At(out', "ws.offerCall") # {} =>
             (lastOp'.op = "offerCall:captured" /\ lastOp'.v = 1)
       /\ \A c \in (1..MaxConns) \cup {NoConn} :
             (SessionKey(c) \in subs' /\ SessionKey(c) \notin subs) =>
                /\ c # NoConn
                /\ handler'.connectionId = c
                /\ \/ lastOp'.op = "offerCall:reply"
                      /\ "offerReply" \in env.tasks
                      /\ c \in env'.localConns
                   \/ lastOp'.op = "initAndDisplayOffer"]_vars

\* the relay has returned the id of the call the user offered, and the
\* handler is subscribed under it with the captured stream attached
C31_Witness ==
    /\ lastOp.op = "offerCall:reply"
    /\ handler.connectionId # NoConn
    /\ SessionKey(handler.connectionId) \in subs
    /\ handler.callStatus = "sent_offer" /\ store.callActive
    /\ handler.localStream \in live

\* C32: when captureInput has failed in offerCall the call is not started:
\* no offer is sent, the handler gets no connection id and no subscription,
\* the status and the active mark stay as they were, and no stream captured
\* by the failed attempt is left with live tracks.
C32_FailedOfferStartsNothing ==
    [][(lastOp'.op = "offerCall:captured" /\ lastOp'.v = 0) =>
          /\ At(out', "ws.offerCall") = {}
          /\ handler'.connectionId = handler.connectionId
          /\ subs' = subs
          /\ handler'.callStatus = handler.callStatus
          /\ store'.callActive = store.callActive
          /\ "offerReply" \notin env'.tasks
          /\ live' \subseteq live]_vars

\* C33: the step of doAnswer that follows a successful capture attaches
\* the captured stream, then tells the relay of the acceptance, once, and
\* after that emits the connectToRemote notifications, each carrying the
\* attached stream; the relay is told of an acceptance by no other step.
C33_AcceptAfterAttach ==
    [][/\ (lastOp'.op = "doAnswer:captured" /\ lastOp'.v = 1) =>
             /\ handler'.localStream = env'.streams
             /\ store'.mediaStream = env'.streams
             /\ env'.streams \in live'
             /\ At(out', "ws.acceptCall") = {1}
             /\ out'[1].k = SessionKey(handler.connectionId)
             /\ \A i \in 1..Len(out') :
                   IsConnect(out'[i]) =>
                      i > 1 /\ out'[i].v = handler'.localStream
       /\ At(out', "ws.acceptCall") # {} =>
             (lastOp'.op = "doAnswer:captured" /\ lastOp'.v = 1)]_vars

\* doAnswer has told the relay and connected a queued peer, whose link
\* holds the attached stream
C33_Witness ==
    /\ lastOp.op = "doAnswer:captured" /\ lastOp.v = 1
    /\ out[1].a = "ws.acceptCall"
    /\ Len(Connects(out)) >= 1
    /\ links[Connects(out)[1].k].stream = handler.localStream
    /\ handler.localStream \in live

\* C34: an acceptCall that reaches a handler whose status is not
\* received_offer and that has no connection id throws: nothing is notified
\* and the handler, the links and the store stay as they were.
C34_AcceptWithoutIdThrows ==
    [][(lastOp'.op = "acceptCall" /\ handler.callStatus # "received_offer"
          /\ handler.connectionId = NoConn) =>
             /\ out' = <<Fx("throw", NoKey, 0)>>
             /\ handler' = handler
             /\ links' = links /\ subs' = subs /\ store' = store
             /\ live' = live]_vars

\* an opponent's acceptance reached the handler after the offered call had
\* been hung up
C34_Witness ==
    /\ lastOp.op = "acceptCall"
    /\ out = <<Fx("throw", NoKey, 0)>>
    /\ handler.callStatus = "sent_offer"
    /\ handler.connectionId = NoConn
    /\ lastOp.k[1] \in env.localConns

\* C39: when declineCall has run on a received offer, the handler holds
\* nothing of the declined session: no connection id, the call inactive, no
\* incoming call shown, and the peer link made for the offering opponent
\* neither subscribed nor listed among the handler's connection ids.
C39_DeclineDropsSession ==
    [][(lastOp'.op = "declineCall" /\ handler.callStatus = "received_offer")
        => /\ store'.incomingCall = NoConn
           /\ TornDown(handler', store', subs')]_vars

(* -------------------- properties of the file link --------------------- *)
\* the link is closed and no callback of its data channel is outstanding
Settled(l) ==
    /\ l.kind = "file"
    /\ l.connectionStatus = "closed"
    /\ l.sendChannel \in {"null", "closed"}

\* C13: a file transfer whose link has been closed (closeEvents, or the
\* data channel reporting closed) is never left in status in_progress.
C13_ClosedTransferNotInProgress ==
    \A k \in LinkKeys :
       Settled(links[k]) => links[k].transfer # "in_progress"

TerminalStatuses ==
    {"finished", "declined_by_opponent", "declined_by_you", "error"}

\* C21: a transfer record whose status is finished, declined_by_opponent,
\* declined_by_you or error keeps that status whatever happens next.
C21_TerminalStatusKept ==
    [][\A k \in LinkKeys :
          links[k].transfer \in TerminalStatuses =>
             links'[k].transfer = links[k].transfer]_vars

\* C20: when the platform reports the ICE state disconnected to a file
\* link, the link runs closeEvents with the reason 'Connection has been
\* lost': the reason is reported through ondatachannelclose first, the
\* status becomes closed, the native connection is closed and a data
\* channel that was not closed is closing or closed.
C20_IceDisconnectClosesFileLink ==
    [][\A k \in LinkKeys :
          (/\ lastOp'.op = "iceChange" /\ lastOp'.k = k
           /\ links[k].kind = "file" /\ links[k].ice = "connected") =>
             /\ links'[k].connectionStatus = "closed"
             /\ links'[k].reported = LostText
             /\ out' # <<>> /\ out'[1] = Fx("ondatachannelclose", NoKey, 0)
             /\ links'[k].pc = "closed"
             /\ links'[k].sendChannel \notin {"connecting", "open"}
             /\ links[k].sendChannel # "null" =>
                   links'[k].sendChannel \in {"closing", "closed"}]_vars

\* the connection of a transfer in progress is lost: the open channel is
\* being closed and the record carries the reason
C20_Witness ==
    /\ lastOp.op = "iceChange"
    /\ links[Key0].kind = "file"
    /\ links[Key0].connectionStatus = "closed"
    /\ links[Key0].reported = LostText
    /\ links[Key0].sendChannel = "closing"
    /\ links[Key0].transfer = "error" /\ links[Key0].error = LostText

====
